---- MODULE Spec2Model ----
(***************************************************************************)
(* The prediction service of nightscout-tray (internal/prediction):        *)
(* Service.StartCalculation / CancelCalculation / runCalculation, the      *)
(* forecast entry points (GetPrediction, GetPredictionWithScenario,        *)
(* GetIOBCOB, RefreshCache) with the getRecentData cache, GetParameters,   *)
(* and the point-by-point prediction arithmetic of Predictor and           *)
(* OrefEngine.                                                             *)
(*                                                                         *)
(* s.mu is modelled by the variable mu.  A write-locked section that the   *)
(* code can stay in for long, or whose holder is a background worker, is   *)
(* two steps (take the lock, then body and unlock); a section entered by   *)
(* an API call or a read-locked single read is one step enabled only while *)
(* no writer holds mu.  Code that runs outside any lock (SetProgress, the  *)
(* fetches of the worker, the predictors' reads of their params pointer)   *)
(* is a step of its own and needs no lock.                                 *)
(***************************************************************************)
EXTENDS Integers, Sequences, FiniteSets, TLC

\* ---------------------------------------------------------------- bounds
MaxRuns == 2          \* StartCalculation calls that are accepted
MaxOverlapRuns == 1   \* the same, where forecast calls run beside them
MaxCalls == 2         \* forecast-side calls (GetPrediction, ...)
MaxTime == 6          \* last clock value (minutes)
MaxMutations == 1     \* writes a caller makes to a value GetParameters returned
MaxFloat == 10000     \* the largest finite value of the model's floats
MaxLearnCalls == 3    \* LearnFromHistory calls made on the ensemble engine
MaxEvents == 21       \* clean corrections, and clean meals, of an analysed history

\* ------------------------------------------------------- program constants
cacheDuration == 5    \* minutes
DefaultISF == 50
DefaultICR == 10
DefaultDIA == 4
PredictionHorizonMinutes == 360
ShortTermPoints == 24
SafeMin == 20
SafeMax == 500
MaxOrefPatterns == 100
maxPatterns == 1000
similarityThreshold == 850
AutosensMax == 1200
AutosensMin == 700

Runs == 1..MaxRuns
ParamIds == 0..MaxRuns           \* 0: the object NewService starts with
Modes == {"statistical", "ml"}
Periods == {"morning", "midday", "evening", "night"}
MapFields == {"ISFByTimeOfDay", "ICRByTimeOfDay", "BasalRateByTimeOfDay"}
NoChan == 0                      \* calculationCancel == nil
ZeroTime == -1                   \* time.Time{}
\* holders of s.mu
Free == [kind |-> "free", id |-> 0]
Forecaster == [kind |-> "forecast", id |-> 0]
WorkerThread(r) == [kind |-> "worker", id |-> r]

VARIABLES
  now,                \* the clock
  client,             \* s.client: TRUE when a data source is attached
  mu,                 \* s.mu: Free or the thread holding the write lock
  params,             \* s.params (a pointer: the id of a parameter object)
  heap,               \* parameter objects: id -> scalar fields
  maps,               \* map objects: <<id, field>> -> [period -> value]
  predictorParams,    \* predictor.params, mlPredictor.params, orefEngine.params
  lastPrediction,     \* s.lastPrediction
  isCalculating,      \* s.isCalculating
  calculationCancel,  \* s.calculationCancel: NoChan or a channel
  closed,             \* the channels that have been closed
  useMLPrediction,    \* s.useMLPrediction
  cachedEntries, cachedTreatments, cacheTime,
  progress,           \* analyzer.progress: [stage, percent]
  worker,             \* run -> goroutine state of runCalculation
  started,            \* number of accepted StartCalculation calls
  startResult,        \* what the latest StartCalculation call returned
  fc,                 \* the forecast call in progress
  calls,              \* forecast-side calls made so far
  got,                \* the value the caller holds from GetParameters
  mutations,          \* writes the caller made to it
  pr,                 \* a prediction being computed, point by point
  orefEngine,         \* s.orefEngine: what the ensemble engine has learned
  mlPredictor,        \* s.mlPredictor: the pattern library of the sequence predictor
  analysis            \* an analysis of the analyzer: its inputs and its estimates

cacheVars == <<cachedEntries, cachedTreatments, cacheTime>>
fcVars == <<fc, calls>>
callerVars == <<got, mutations>>
engineVars == <<orefEngine, mlPredictor>>
vars == <<now, client, mu, params, heap, maps, predictorParams, lastPrediction,
          isCalculating, calculationCancel, closed, useMLPrediction,
          cachedEntries, cachedTreatments, cacheTime, progress, worker,
          started, startResult, fc, calls, got, mutations, pr,
          orefEngine, mlPredictor, analysis>>

\* ------------------------------------------------------ parameter objects
NewDiabetesParameters == [ISF |-> DefaultISF, ICR |-> DefaultICR, DIA |-> DefaultDIA]

EmptyMap == [p \in Periods |-> 0]

Unallocated == [ISF |-> 0, ICR |-> 0, DIA |-> 0]

\* The deep value of a parameter object: its scalars and its three maps.
Snapshot(id) == [scalars |-> heap[id],
                 maps |-> [f \in MapFields |-> maps[<<id, f>>]]]

\* analyzer.SetProgress(stage, percent)
SetProgress(stage, percent) == [stage |-> stage, percent |-> percent]

\* a runCalculation goroutine: its position, its mode, the parameter object it
\* built and the error it met; returned is what the StartCalculation call that
\* started it gave back to its caller; committed and cancelled record its
\* history
IdleWorker == [pc |-> "none", mode |-> "statistical", params |-> 0, err |-> "nil",
               returned |-> "none", committed |-> FALSE, cancelled |-> FALSE]

\* a *PredictionResult: the engine that made it, the reading it starts from
\* and the parameter objects its two parts were computed from
NoPrediction == [engine |-> "nil", glucose |-> 0, first |-> 0, second |-> 0]

\* a forecast-side call: its position, its locals and what it returned;
\* fetched counts the requests it made to the data source, during tells
\* whether a recalculation was in progress when it was made
IdleCall == [pc |-> "idle", kind |-> "none", client |-> FALSE, useML |-> FALSE,
             entries |-> <<>>, treatments |-> <<>>, first |-> 0,
             result |-> NoPrediction, err |-> "nil", cause |-> "nil",
             fetched |-> 0, during |-> FALSE]

NoValue == [id |-> -1, scalars |-> Unallocated, held |-> FALSE]

\* a prediction: the function that computes it, its inputs, the range and the
\* step it has reached, the unrounded value of the previous point and the value
\* of the point it has just produced
NoRun == [pc |-> "none", engine |-> "none", range |-> "short", glucose |-> 0,
          trend |-> 0, treatments |-> <<>>, hour |-> 0, meal |-> FALSE,
          correction |-> FALSE, step |-> 0, prev |-> 0, value |-> 0,
          sequence |-> "none", minute |-> 0]

\* ---------------------------------------------------------------- float64
\* The integers -MaxFloat..MaxFloat stand for the finite float64 values; PosInf,
\* NegInf and NaN for the three values IEEE 754 adds.  A result beyond the
\* finite range becomes an infinity, as an overflowing float64 operation does.
PosInf == MaxFloat + 1
NegInf == 0 - PosInf
NaN == MaxFloat + 2

Sat(x) == IF x > MaxFloat THEN PosInf ELSE IF x < 0 - MaxFloat THEN NegInf ELSE x

\* a + b
FAdd(a, b) ==
  IF a = NaN \/ b = NaN THEN NaN
  ELSE IF a = PosInf THEN (IF b = NegInf THEN NaN ELSE PosInf)
  ELSE IF a = NegInf THEN (IF b = PosInf THEN NaN ELSE NegInf)
  ELSE IF b = PosInf \/ b = NegInf THEN b
  ELSE Sat(a + b)

\* -a
FNeg(a) == IF a = NaN THEN NaN ELSE 0 - a

\* a * (num / den) for a factor num/den >= 0
FScale(a, num, den) ==
  IF a = NaN THEN NaN
  ELSE IF a = PosInf \/ a = NegInf THEN (IF num = 0 THEN NaN ELSE a)
  ELSE Sat((a * num) \div den)

\* a < b: false when either side is NaN
FLess(a, b) == a # NaN /\ b # NaN /\ a < b

\* math.Min and math.Max: NaN when either argument is NaN
MathMin(a, b) == IF a = NaN \/ b = NaN THEN NaN ELSE IF a < b THEN a ELSE b

MathMax(a, b) == IF a = NaN \/ b = NaN THEN NaN ELSE IF a > b THEN a ELSE b

\* math.Exp(-k/10) in thousandths, k >= 0
ExpTable ==
  <<1000, 905, 819, 741, 670, 607, 549, 497, 449, 407,
    368, 333, 301, 273, 247, 223, 202, 183, 165, 150,
    135, 122, 111, 100, 91, 82, 74, 67, 61, 55,
    50, 45, 41, 37, 33, 30, 27, 25, 22, 20,
    18, 17, 15, 14, 12, 11, 10, 9, 8, 7,
    7, 6, 6, 5, 5, 4, 4, 3, 3, 3,
    2, 2, 2, 2, 2, 2, 1, 1, 1, 1>>

ExpNeg(k) == IF k >= Len(ExpTable) THEN 0 ELSE ExpTable[k + 1]

\* 1 / (1 + math.Exp(-x)) in thousandths, x given in tenths
Logistic(xt) ==
  IF xt >= 0 THEN 1000000 \div (1000 + ExpNeg(xt))
  ELSE (1000 * ExpNeg(0 - xt)) \div (1000 + ExpNeg(0 - xt))

\* part_013:802-813: the circadian profile NewOrefEngine starts with, in
\* percent, for the hours 0..23
HourlySensitivity ==
  <<140, 140, 120, 80, 70, 60, 60, 70, 80, 90, 100, 100,
    100, 100, 100, 100, 100, 100, 100, 100, 110, 120, 130, 140>>

HourlyICR ==
  <<100, 100, 100, 100, 100, 100, 70, 75, 80, 90, 100, 100,
    100, 100, 100, 100, 100, 100, 110, 115, 110, 100, 100, 100>>

\* ------------------------------------------- what the engines learn from
\* A treatment of a history, with the readings the engine finds around it
\* (findBGAt, part_013:1693-1713; 0 stands for no reading within 10 minutes):
\* insulin in tenths of a unit, carbs in grams, the hour it was given, the
\* reading at that time, 2 and 3 hours later, the number of readings in the 3
\* hours after it, their highest rise and the lowest reading of the 4 hours
\* after it.  For the analyzer (analyzer.go:465-621, 737-811) it carries its
\* id (0 for none), its event type, its time in minutes since the first day
\* began, the reading 1 hour later and the minutes until the readings are
\* stable.
NoTreatment ==
  [insulin |-> 0, carbs |-> 0, hour |-> 12, bgBefore |-> 0, bgAfter2h |-> 0,
   bgAfter3h |-> 0, curve |-> 0, rise |-> 0, nadir |-> 0,
   id |-> 0, eventType |-> "", minute |-> 720, bgAfter1h |-> 0, stable |-> 240]

\* analyzer.go:625-641: sort.Float64s orders NaN before every other value
RECURSIVE SortFloat64s(_)
SortFloat64s(values) ==
  IF values = <<>> THEN <<>>
  ELSE LET key(x) == IF x = NaN THEN NegInf - 1 ELSE x
           i == CHOOSE i \in 1..Len(values) :
                  \A j \in 1..Len(values) :
                    key(values[i]) < key(values[j]) \/ (key(values[i]) = key(values[j]) /\ i <= j)
       IN <<values[i]>>
            \o SortFloat64s(SubSeq(values, 1, i - 1) \o SubSeq(values, i + 1, Len(values)))

median(values) ==
  LET sorted == SortFloat64s(values)
      n == Len(sorted)
  IN IF n = 0 THEN 0
     ELSE IF n % 2 = 0 THEN FScale(FAdd(sorted[n \div 2], sorted[n \div 2 + 1]), 1, 2)
     ELSE sorted[n \div 2 + 1]

\* math.Abs(a - b) < d
Near(a, b, d) == a - b < d /\ b - a < d

\* part_013:1030, 1103 and part_015:214: a library takes a new pattern only
\* while it holds fewer than its maximum
LibraryNeverFull(lib, max) == FALSE

LibraryFull(lib, max) == Len(lib) >= max

\* part_013:791-818, NewOrefEngine; trained tells whether a LearnFromHistory
\* call has got past its size test, learnCalls counts the calls made directly
\* and observed is the history of the last of them
NewOrefEngine ==
  [sensitivityRatio |-> 1000, HourlySensitivity |-> HourlySensitivity,
   HourlyICR |-> HourlyICR, MealPatterns |-> <<>>, CorrectionPatterns |-> <<>>,
   trained |-> FALSE, learnCalls |-> 0,
   observed |-> [entries |-> 0, treatments |-> <<>>, deltas |-> <<>>]]

\* part_013:961  float64(hour*60+minute) / 1440, in thousandths
TimeOfDay(hour) == (hour * 60 * 1000) \div 1440

\* part_013:857-951: the hourly factors, in percent, from the corrections
\* (insulin without carbs) and the covered meals of the history
learnCircadianPatterns(e, ts) ==
  LET isfOf(t) == ((t.bgBefore - t.bgAfter2h) * 10) \div t.insulin
      icrOf(t) == (t.carbs * 10) \div t.insulin
      isISF(t) == /\ t.insulin >= 5 /\ t.carbs = 0
                  /\ t.bgBefore > 150 /\ t.bgAfter2h > 0 /\ t.bgAfter2h < t.bgBefore
                  /\ (t.bgBefore - t.bgAfter2h) * 10 >= 10 * t.insulin
                  /\ (t.bgBefore - t.bgAfter2h) * 10 <= 200 * t.insulin
      isICR(t) == /\ t.insulin > 0 /\ t.carbs > 0
                  /\ t.bgBefore > 0 /\ t.bgAfter3h > 0
                  /\ Near(t.bgAfter3h, t.bgBefore, 50)
                  /\ t.carbs * 10 >= 3 * t.insulin /\ t.carbs * 10 <= 40 * t.insulin
      isfTs == SelectSeq(ts, isISF)
      icrTs == SelectSeq(ts, isICR)
      hourlyISF(h) == LET at(t) == t.hour = h
                          hs == SelectSeq(isfTs, at)
                      IN [i \in 1..Len(hs) |-> isfOf(hs[i])]
      hourlyICR(h) == LET at(t) == t.hour = h
                          hs == SelectSeq(icrTs, at)
                      IN [i \in 1..Len(hs) |-> icrOf(hs[i])]
      medianISF == median([i \in 1..Len(isfTs) |-> isfOf(isfTs[i])])
      medianICR == median([i \in 1..Len(icrTs) |-> icrOf(icrTs[i])])
  IN [e EXCEPT
        !.HourlySensitivity =
           [h \in 1..24 |-> IF Len(isfTs) >= 10 /\ Len(hourlyISF(h - 1)) >= 2
                              THEN (median(hourlyISF(h - 1)) * 100) \div medianISF
                              ELSE e.HourlySensitivity[h]],
        !.HourlyICR =
           [h \in 1..24 |-> IF Len(icrTs) >= 10 /\ Len(hourlyICR(h - 1)) >= 2
                              THEN (medianICR * 100) \div median(hourlyICR(h - 1))
                              ELSE e.HourlyICR[h]]]

\* part_013:1011-1033
addMealPattern(lib, pattern) ==
  LET similar == {i \in 1..Len(lib) :
                    /\ Near(lib[i].TimeOfDay, pattern.TimeOfDay, 100)
                    /\ Near(lib[i].CarbAmount, pattern.CarbAmount, 20)}
      first == CHOOSE i \in similar : \A j \in similar : i <= j
  IN IF similar # {}
       THEN [lib EXCEPT ![first].PeakBGRise = (8 * @ + 2 * pattern.PeakBGRise) \div 10,
                        ![first].Count = @ + 1]
     ELSE IF LibraryFull(lib, MaxOrefPatterns) THEN lib
     ELSE Append(lib, pattern)

\* part_013:954-1008
RECURSIVE learnMealPatterns(_, _)
learnMealPatterns(lib, ts) ==
  IF ts = <<>> THEN lib
  ELSE IF Len(ts) = 1
    THEN LET t == ts[1]
         IN IF t.carbs > 0 /\ t.bgBefore > 0 /\ t.curve >= 12
              THEN addMealPattern(lib, [TimeOfDay |-> TimeOfDay(t.hour),
                                        CarbAmount |-> t.carbs,
                                        PeakBGRise |-> t.rise, Count |-> 1])
              ELSE lib
  ELSE LET half == Len(ts) \div 2
           done == learnMealPatterns(lib, SubSeq(ts, 1, half))
           rest == SubSeq(ts, half + 1, Len(ts))
       IN IF done = lib THEN learnMealPatterns(lib, rest) ELSE learnMealPatterns(done, rest)

\* part_013:1089-1106
addCorrectionPattern(lib, pattern) ==
  LET similar == {i \in 1..Len(lib) :
                    /\ Near(lib[i].TimeOfDay, pattern.TimeOfDay, 100)
                    /\ Near(lib[i].StartingBG, pattern.StartingBG, 30)}
      first == CHOOSE i \in similar : \A j \in similar : i <= j
  IN IF similar # {}
       THEN [lib EXCEPT ![first].ActualISF = (8 * @ + 2 * pattern.ActualISF) \div 10,
                        ![first].Count = @ + 1]
     ELSE IF LibraryFull(lib, MaxOrefPatterns) THEN lib
     ELSE Append(lib, pattern)

\* part_013:1036-1086
RECURSIVE learnCorrectionPatterns(_, _)
learnCorrectionPatterns(lib, ts) ==
  IF ts = <<>> THEN lib
  ELSE IF Len(ts) = 1
    THEN LET t == ts[1]
         IN IF /\ t.insulin >= 5 /\ t.carbs = 0
               /\ t.bgBefore >= 150 /\ t.bgBefore - t.nadir >= 20
              THEN addCorrectionPattern(lib, [TimeOfDay |-> TimeOfDay(t.hour),
                                              StartingBG |-> t.bgBefore,
                                              ActualISF |-> ((t.bgBefore - t.nadir) * 10)
                                                              \div t.insulin,
                                              Count |-> 1])
              ELSE lib
  ELSE LET half == Len(ts) \div 2
           done == learnCorrectionPatterns(lib, SubSeq(ts, 1, half))
           rest == SubSeq(ts, half + 1, Len(ts))
       IN IF done = lib THEN learnCorrectionPatterns(lib, rest) ELSE learnCorrectionPatterns(done, rest)

\* part_013:1109-1150.  A delta is a pair of neighbouring readings: whether
\* the later one is of the last 24 hours, the minutes between them, the
\* change of the reading and the change calculateExpectedDelta
\* (part_013:1153-1181) expects.  The ratios are in thousandths.
calculateAutosens(e, deltas) ==
  LET usable(d) == /\ d.recent /\ d.gap >= 4 /\ d.gap <= 6
                   /\ d.expectedDelta # NaN
                   /\ (d.expectedDelta > 5 \/ d.expectedDelta < 0 - 5)
      ratio(d) ==
        LET num == d.actualDelta + 100
            den == FAdd(d.expectedDelta, 100)
        IN IF den = 0 THEN (IF num = 0 THEN NaN ELSE IF num > 0 THEN PosInf ELSE NegInf)
           ELSE IF den = PosInf \/ den = NegInf THEN 0
           ELSE IF den > 0 THEN Sat((num * 1000) \div den)
           ELSE Sat(0 - ((num * 1000) \div (0 - den)))
      used == SelectSeq(deltas, usable)
      deviations == SortFloat64s([i \in 1..Len(used) |-> ratio(used[i])])
  IN IF Len(deviations) >= 10
       THEN [e EXCEPT !.sensitivityRatio =
                         MathMax(AutosensMin,
                                 MathMin(AutosensMax, deviations[Len(deviations) \div 2 + 1]))]
       ELSE e

\* part_013:831-854, OrefEngine.LearnFromHistory
OrefLearned(e, h) ==
  IF h.entries < 100 \/ Len(h.treatments) < 10 THEN e
  ELSE calculateAutosens(
         [learnCircadianPatterns(e, h.treatments) EXCEPT
            !.MealPatterns = learnMealPatterns(e.MealPatterns, h.treatments),
            !.CorrectionPatterns = learnCorrectionPatterns(e.CorrectionPatterns, h.treatments),
            !.trained = TRUE],
         h.deltas)

\* part_015:80-95, NewMLPredictor
NewMLPredictor == [patterns |-> <<>>]

\* part_015:243-266, in thousandths, for sequences of six equal readings: the
\* cosine of two such sequences is 1, -1 or (one of them all 0) undefined
sequenceSimilarity(a, b, iobA, iobB) ==
  LET iobDiff == IF iobA >= iobB THEN iobA - iobB ELSE iobB - iobA
      shapeSim == IF a = 0 \/ b = 0 THEN 0 ELSE IF (a > 0) = (b > 0) THEN 1000 ELSE 0 - 1000
  IN IF a = 0 \/ b = 0 THEN 0
     ELSE (8 * shapeSim + 2 * ExpNeg(5 * iobDiff)) \div 10

\* part_015:190-240: clusterPatterns and mergePattern over the sequences
\* built from the history, one after the other (the first half, then the rest)
RECURSIVE clusterPatterns(_, _)
clusterPatterns(lib, seqs) ==
  IF seqs = <<>> THEN lib
  ELSE IF Len(seqs) = 1
    THEN LET seq == seqs[1]
             sim(i) == sequenceSimilarity(seq.value, lib[i].InputPattern, seq.iob,
                                          lib[i].ContextIOB)
             good == {i \in 1..Len(lib) : sim(i) >= similarityThreshold}
             bestMatch == CHOOSE i \in good :
                            \A j \in good : sim(i) > sim(j) \/ (sim(i) = sim(j) /\ i <= j)
         IN IF good # {}
              THEN [lib EXCEPT ![bestMatch].ContextIOB = (9 * @ + seq.iob) \div 10,
                               ![bestMatch].Count = @ + 1]
            ELSE IF LibraryFull(lib, maxPatterns) THEN lib
            ELSE Append(lib, [InputPattern |-> seq.value, ContextIOB |-> seq.iob,
                              Count |-> 1])
  ELSE LET half == Len(seqs) \div 2
           done == clusterPatterns(lib, SubSeq(seqs, 1, half))
           rest == SubSeq(seqs, half + 1, Len(seqs))
       IN IF done = lib THEN clusterPatterns(lib, rest) ELSE clusterPatterns(done, rest)

\* part_015:103-120, MLPredictor.LearnFromHistory; part_015:191-198: the
\* library is made anew whenever the history yields a sequence
MLLearned(m, h) ==
  IF h.entries < 20 \/ h.sequences = <<>> THEN m
  ELSE [m EXCEPT !.patterns = clusterPatterns(<<>>, h.sequences)]

\* ------------------------------------------------------------- histories
\* n meals (carbs without insulin) that match no stored pattern and no other
\* meal of the list
FreshMeals(e, n) ==
  [i \in 1..n |-> [NoTreatment EXCEPT !.carbs = 20 * (Len(e.MealPatterns) + i),
                                      !.bgBefore = 120, !.curve = 36, !.rise = 60]]

\* n corrections (2 units at a high reading, no reading 2 hours later) that
\* match no stored pattern and no other correction of the list
FreshCorrections(e, n) ==
  [i \in 1..n |-> [NoTreatment EXCEPT !.insulin = 20, !.hour = 3,
                                      !.bgBefore = 150 + 30 * (Len(e.CorrectionPatterns) + i),
                                      !.nadir = 110 + 30 * (Len(e.CorrectionPatterns) + i)]]

\* n pairs of readings 5 minutes apart, of the last 24 hours
Deltas(n, actualDelta, expectedDelta) ==
  [i \in 1..n |-> [recent |-> TRUE, gap |-> 5, actualDelta |-> actualDelta,
                   expectedDelta |-> expectedDelta]]

\* the histories LearnFromHistory is called with: too few readings, too few
\* treatments, and 100 readings with the treatments filled up to ten and more;
\* the batch with more distinct observations than the libraries hold is
\* offered to a first call only
OrefHistories(e) ==
  LET \* a meal and a correction like the first ones FreshMeals and
      \* FreshCorrections give
      RepeatedTreatments ==
        <<[NoTreatment EXCEPT !.carbs = 20, !.bgBefore = 120, !.curve = 36, !.rise = 90],
          [NoTreatment EXCEPT !.insulin = 20, !.hour = 3, !.bgBefore = 180, !.nadir = 120]>>
      \* ten corrections with a reading 2 hours later and ten covered meals,
      \* at two hours of the day each, which leave no pattern
      CircadianTreatments ==
        [i \in 1..20 |->
           IF i <= 10
             THEN [NoTreatment EXCEPT !.insulin = 20, !.hour = IF i <= 5 THEN 3 ELSE 20,
                                      !.bgBefore = 180, !.nadir = 180,
                                      !.bgAfter2h = IF i <= 5 THEN 140 ELSE 120]
             ELSE [NoTreatment EXCEPT !.insulin = 50, !.hour = IF i <= 15 THEN 7 ELSE 19,
                                      !.carbs = IF i <= 15 THEN 50 ELSE 100,
                                      !.bgBefore = 120, !.bgAfter3h = 130]]
      \* a meal and a correction that lie between the first two FreshMeals
      \* and FreshCorrections give, nearer to the second of them
      BetweenTreatments ==
        <<[NoTreatment EXCEPT !.carbs = 35, !.bgBefore = 120, !.curve = 36, !.rise = 60],
          [NoTreatment EXCEPT !.insulin = 20, !.hour = 3, !.bgBefore = 200, !.nadir = 160]>>
      TreatmentBatches ==
        {<<>>, FreshMeals(e, 1) \o FreshCorrections(e, 1), RepeatedTreatments,
         CircadianTreatments, BetweenTreatments}
          \cup (IF e.learnCalls = 0
                THEN {FreshMeals(e, MaxOrefPatterns + 1)
                        \o FreshCorrections(e, MaxOrefPatterns + 1)}
                ELSE {})
      Padding == [i \in 1..10 |-> NoTreatment]
      DeltaBatches ==
        {Deltas(9, 10, 20), Deltas(10, 50, 10), Deltas(10, 0 - 10, 20),
         Deltas(10, 0 - 60, 30), Deltas(6, 0 - 100, 0 - 100) \o Deltas(4, 5, 10),
         Deltas(10, 10, 3) \o <<[recent |-> FALSE, gap |-> 5, actualDelta |-> 10,
                                expectedDelta |-> 20],
                               [recent |-> TRUE, gap |-> 10, actualDelta |-> 10,
                                expectedDelta |-> NaN]>>}
  IN {[entries |-> 99, treatments |-> RepeatedTreatments \o Padding,
        deltas |-> Deltas(10, 50, 10)],
      [entries |-> 100, treatments |-> SubSeq(Padding, 1, 9), deltas |-> Deltas(10, 50, 10)]}
       \cup {[entries |-> 100, treatments |-> ts \o Padding, deltas |-> Deltas(9, 10, 20)] :
               ts \in TreatmentBatches}
       \cup {[entries |-> 100, treatments |-> Padding, deltas |-> d] : d \in DeltaBatches}

\* the sequences buildSequences (part_015:123-176) makes of a history: six
\* equal normalised readings (value) and the insulin on board, in units
Sequences(n) == [i \in 1..n |-> [value |-> 1, iob |-> 3 * i]]

\* the histories the sequence predictor is called with; the one with more
\* distinct sequences than the library holds is offered to a first call only
MLHistories(first) ==
  {[entries |-> 19, sequences |-> Sequences(1)],
   [entries |-> 20, sequences |-> <<>>],
   [entries |-> 20, sequences |-> Sequences(1)],
   [entries |-> 30, sequences |-> <<[value |-> 1, iob |-> 0], [value |-> 1, iob |-> 2],
                                    [value |-> 0 - 1, iob |-> 0], [value |-> 1, iob |-> 9]>>]}
    \cup (IF first THEN {[entries |-> maxPatterns + 12,
                          sequences |-> Sequences(maxPatterns + 1)]}
          ELSE {})

\* the history a recalculation has fetched
FetchedHistory(e) ==
  [entries |-> 100,
   treatments |-> FreshMeals(e, 1) \o FreshCorrections(e, 1) \o [i \in 1..10 |-> NoTreatment],
   deltas |-> Deltas(10, 0 - 10, 20), sequences |-> Sequences(1)]

\* an analysis that has not been made
NoAnalysis == [pc |-> "none", events |-> 0]

\* service.go:39-60, NewService
InitService ==
  /\ now = 0
  /\ client \in BOOLEAN
  /\ mu = Free
  /\ params = 0
  /\ heap = [i \in ParamIds |-> IF i = 0 THEN NewDiabetesParameters ELSE Unallocated]
  /\ maps = [r \in ParamIds \X MapFields |-> EmptyMap]
  /\ predictorParams = [p \in {"predictor", "mlPredictor", "orefEngine"} |-> 0]
  /\ lastPrediction = NoPrediction
  /\ isCalculating = FALSE
  /\ calculationCancel = NoChan
  /\ closed = {}
  /\ useMLPrediction = FALSE
  /\ cachedEntries = <<>>
  /\ cachedTreatments = <<>>
  /\ cacheTime = ZeroTime
  /\ progress = SetProgress("", 0)
  /\ worker = [r \in Runs |-> IdleWorker]
  /\ started = 0
  /\ startResult = "none"
  /\ fc = IdleCall
  /\ calls = 0
  /\ got = NoValue
  /\ mutations = 0
  /\ orefEngine = NewOrefEngine
  /\ mlPredictor = NewMLPredictor

Init == InitService /\ pr = NoRun /\ analysis = NoAnalysis

\* ------------------------------------------------------- StartCalculation
\* a StartCalculation that never finds the service busy
StartBusyIgnored == FALSE

\* service.go:96  if s.isCalculating { return error }
StartBusy == isCalculating

\* service.go:92-106.  The accepted call marks the service busy, installs a
\* fresh cancel channel and starts the goroutine of run started+1.
StartCalculation(mode, limit) ==
  /\ mu = Free
  /\ IF StartBusy
       THEN /\ startResult' = "calculation already in progress"
            /\ UNCHANGED <<isCalculating, calculationCancel, worker, started>>
       ELSE /\ started < limit
            /\ isCalculating' = TRUE
            /\ calculationCancel' = started + 1
            /\ started' = started + 1
            /\ worker' = [worker EXCEPT ![started + 1] =
                            [IdleWorker EXCEPT !.pc = "readClient", !.mode = mode,
                                              !.returned = "nil"]]
            /\ startResult' = "nil"
  /\ UNCHANGED <<now, client, mu, params, heap, maps, predictorParams,
                 lastPrediction, closed, useMLPrediction, progress>>
  /\ UNCHANGED <<cacheVars, fcVars, callerVars, pr, engineVars, analysis>>

\* ------------------------------------------------------ CancelCalculation
\* service.go:109-119
CancelCalculation ==
  /\ mu = Free
  /\ isCalculating /\ calculationCancel # NoChan
  /\ closed' = closed \cup {calculationCancel}
  /\ calculationCancel' = NoChan
  /\ isCalculating' = FALSE
  /\ progress' = SetProgress("Cancelled", 0)
  /\ worker' = [worker EXCEPT ![calculationCancel].cancelled = TRUE]
  /\ UNCHANGED <<now, client, mu, params, heap, maps, predictorParams,
                 lastPrediction, useMLPrediction, started, startResult>>
  /\ UNCHANGED <<cacheVars, fcVars, callerVars, pr, engineVars, analysis>>

\* service.go:122-136.  The check reads the channel the service holds now.
isCancelled ==
  \/ calculationCancel = NoChan
  \/ calculationCancel \in closed

\* ---------------------------------------------------------- runCalculation
\* The parameter object a run's analysis allocates: one value per run, which
\* stands for the estimates computed from that run's history.
AnalyzedParameters(r) == [ISF |-> DefaultISF + r, ICR |-> DefaultICR + r, DIA |-> DefaultDIA]

\* analyzer.go:375-443: the time-of-day maps of a fresh analysis carry the
\* global value in every period that lacks samples.
AnalyzedMap(f, r) ==
  [p \in Periods |-> CASE f = "ISFByTimeOfDay" -> AnalyzedParameters(r).ISF
                       [] f = "ICRByTimeOfDay" -> AnalyzedParameters(r).ICR
                       [] OTHER -> 0]

\* service.go:281-284: the hours of each period
PeriodHours(p) ==
  CASE p = "morning" -> <<6, 7, 8, 9, 10>>
    [] p = "midday" -> <<11, 12, 13, 14, 15, 16>>
    [] p = "evening" -> <<17, 18, 19, 20, 21>>
    [] OTHER -> <<22, 23, 0, 1, 2, 3, 4, 5>>

RECURSIVE SumAt(_, _)
SumAt(profile, hours) ==
  IF hours = <<>> THEN 0 ELSE profile[hours[1] + 1] + SumAt(profile, Tail(hours))

\* service.go:286-294 and 303-311: the period averages of the hourly factors,
\* in percent
PeriodSensitivity(e, p) ==
  SumAt(e.HourlySensitivity, PeriodHours(p)) \div Len(PeriodHours(p))

PeriodICR(e, p) == SumAt(e.HourlyICR, PeriodHours(p)) \div Len(PeriodHours(p))

\* service.go:296-300 and 313-317, with the profile of the engine e
updateTimeOfDayParams(r, m, e) ==
  [x \in DOMAIN m |->
     IF x = <<r, "ISFByTimeOfDay">>
       THEN [p \in Periods |-> (heap[r].ISF * PeriodSensitivity(e, p)) \div 100]
     ELSE IF x = <<r, "ICRByTimeOfDay">>
       THEN [p \in Periods |-> (heap[r].ICR * PeriodICR(e, p)) \div 100]
     ELSE m[x]]

Goto(r, pc) == [worker EXCEPT ![r].pc = pc]

\* what runCalculation leaves alone unless a step says otherwise
WorkerFrame ==
  /\ UNCHANGED <<now, client, started, startResult, lastPrediction>>
  /\ UNCHANGED <<cacheVars, fcVars, callerVars, pr, analysis>>

\* service.go:146-156: the read-locked look at s.client, then the first
\* SetProgress
WReadClient(r) ==
  /\ worker[r].pc = "readClient"
  /\ mu = Free
  /\ IF client
       THEN /\ progress' = SetProgress("Fetching glucose entries...", 5)
            /\ worker' = Goto(r, "check1")
       ELSE /\ progress' = SetProgress("Error: No client configured", 0)
            /\ worker' = [worker EXCEPT ![r].pc = "defer", ![r].err = "no client"]
  /\ UNCHANGED <<mu, params, heap, maps, predictorParams, isCalculating,
                 calculationCancel, closed, useMLPrediction>>
  /\ WorkerFrame
  /\ UNCHANGED engineVars

\* the checkpoints of runCalculation that follow a step of their own:
\* service.go:157, 171, 196, 217, 250
CheckPcs == {"check1", "check2", "checkML1", "checkML2", "check4"}

AfterCheck(pc) ==
  CASE pc = "check1" -> "fetchEntries"
    [] pc = "check2" -> "fetchTreatments"
    [] pc = "checkML1" -> "learnOref"
    [] pc = "checkML2" -> "train"
    [] OTHER -> "progress95"

WCheckpoint(r) ==
  /\ worker[r].pc \in CheckPcs
  /\ mu = Free
  /\ worker' = Goto(r, IF isCancelled THEN "defer" ELSE AfterCheck(worker[r].pc))
  /\ UNCHANGED <<mu, params, heap, maps, predictorParams, isCalculating,
                 calculationCancel, closed, useMLPrediction, progress>>
  /\ WorkerFrame
  /\ UNCHANGED engineVars

\* service.go:161-169: client.GetEntriesDays(days)
WFetchEntries(r, ok) ==
  /\ worker[r].pc = "fetchEntries"
  /\ IF ok
       THEN /\ progress' = SetProgress("Fetching treatments...", 15)
            /\ worker' = Goto(r, "check2")
       ELSE /\ progress' = SetProgress("Error fetching entries", 0)
            /\ worker' = [worker EXCEPT ![r].pc = "defer", ![r].err = "fetch entries"]
  /\ UNCHANGED <<mu, params, heap, maps, predictorParams, isCalculating,
                 calculationCancel, closed, useMLPrediction>>
  /\ WorkerFrame
  /\ UNCHANGED engineVars

\* service.go:176-187: client.GetTreatmentsDays(days), then the checkpoint
\* that follows it at once
WFetchTreatments(r, ok) ==
  /\ worker[r].pc = "fetchTreatments"
  /\ IF ok
       THEN /\ mu = Free
            /\ worker' = Goto(r, IF isCancelled THEN "defer" ELSE "analyze")
            /\ UNCHANGED progress
       ELSE /\ progress' = SetProgress("Error fetching treatments", 0)
            /\ worker' = [worker EXCEPT ![r].pc = "defer", ![r].err = "fetch treatments"]
  /\ UNCHANGED <<mu, params, heap, maps, predictorParams, isCalculating,
                 calculationCancel, closed, useMLPrediction>>
  /\ WorkerFrame
  /\ UNCHANGED engineVars

\* service.go:261
WSavingProgress(r) ==
  /\ worker[r].pc = "progress95"
  /\ progress' = SetProgress("Saving parameters...", 95)
  /\ worker' = Goto(r, "lockCommit")
  /\ UNCHANGED <<mu, params, heap, maps, predictorParams, isCalculating,
                 calculationCancel, closed, useMLPrediction>>
  /\ WorkerFrame
  /\ UNCHANGED engineVars

\* service.go:193-194 and 242-243: AnalyzeData / AnalyzeDataML build a new
\* parameter object and end with updateProgress("Complete", 100)
\* (analyzer.go:114, 713); they return no error.
WAnalyze(r) ==
  /\ worker[r].pc = "analyze"
  /\ heap' = [heap EXCEPT ![r] = AnalyzedParameters(r)]
  /\ maps' = [x \in DOMAIN maps |-> IF x[1] = r THEN AnalyzedMap(x[2], r) ELSE maps[x]]
  /\ progress' = SetProgress("Complete", 100)
  /\ worker' = [worker EXCEPT ![r].params = r,
                               ![r].pc = IF worker[r].mode = "ml" THEN "checkML1"
                                                                 ELSE "lockMode"]
  /\ UNCHANGED <<mu, params, predictorParams, isCalculating,
                 calculationCancel, closed, useMLPrediction>>
  /\ WorkerFrame
  /\ UNCHANGED engineVars

\* service.go:202-215: train the ensemble engine, then rewrite the new
\* object's time-of-day maps from the circadian profile.
WLearnOref(r) ==
  /\ worker[r].pc = "learnOref"
  /\ progress' = SetProgress("Training pattern recognition engine...", 50)
  /\ orefEngine' = OrefLearned(orefEngine, FetchedHistory(orefEngine))
  /\ maps' = updateTimeOfDayParams(r, maps, orefEngine')
  /\ worker' = Goto(r, "checkML2")
  /\ UNCHANGED <<mu, params, heap, predictorParams, isCalculating,
                 calculationCancel, closed, useMLPrediction, mlPredictor>>
  /\ WorkerFrame

\* service.go:222-234: TrainLSTM and mlPredictor.LearnFromHistory
WTrain(r) ==
  /\ worker[r].pc = "train"
  /\ progress' = SetProgress("Building pattern library...", 85)
  /\ mlPredictor' = MLLearned(mlPredictor, FetchedHistory(orefEngine))
  /\ worker' = Goto(r, "lockMode")
  /\ UNCHANGED <<mu, params, heap, maps, predictorParams, isCalculating,
                 calculationCancel, closed, useMLPrediction, orefEngine>>
  /\ WorkerFrame

\* s.mu.Lock() at service.go:237/245, 262 and 140
LockPcs == {"lockMode", "lockCommit", "defer"}

AfterLock(pc) ==
  CASE pc = "lockMode" -> "setMode" [] pc = "lockCommit" -> "commit" [] OTHER -> "cleanup"

WLock(r) ==
  /\ worker[r].pc \in LockPcs
  /\ mu = Free
  /\ mu' = WorkerThread(r)
  /\ worker' = Goto(r, AfterLock(worker[r].pc))
  /\ UNCHANGED <<params, heap, maps, predictorParams, isCalculating,
                 calculationCancel, closed, useMLPrediction, progress>>
  /\ WorkerFrame
  /\ UNCHANGED engineVars

\* a locked section of the worker that returns without its Unlock
UnlockForgotten(r) == WorkerThread(r)

\* s.mu.Unlock() at the end of a locked section of the worker
Unlock(r) == Free

\* service.go:237-239 and 245-247
WSetMode(r) ==
  /\ worker[r].pc = "setMode"
  /\ mu = WorkerThread(r)
  /\ useMLPrediction' = (worker[r].mode = "ml")
  /\ mu' = Unlock(r)
  /\ worker' = Goto(r, "check4")
  /\ UNCHANGED <<params, heap, maps, predictorParams, isCalculating,
                 calculationCancel, closed, progress>>
  /\ WorkerFrame
  /\ UNCHANGED engineVars

\* service.go:262-267: the commit
WCommit(r) ==
  /\ worker[r].pc = "commit"
  /\ mu = WorkerThread(r)
  /\ params' = worker[r].params
  /\ predictorParams' = [p \in DOMAIN predictorParams |-> worker[r].params]
  /\ mu' = Unlock(r)
  /\ worker' = [worker EXCEPT ![r].pc = "save", ![r].committed = TRUE]
  /\ UNCHANGED <<heap, maps, isCalculating, calculationCancel, closed,
                 useMLPrediction, progress>>
  /\ WorkerFrame
  /\ UNCHANGED engineVars

\* service.go:270-275: saveParams, then SetProgress("Complete!", 100)
WSave(r) ==
  /\ worker[r].pc = "save"
  /\ mu = Free
  /\ progress' = SetProgress("Complete!", 100)
  /\ worker' = Goto(r, "defer")
  /\ UNCHANGED <<mu, params, heap, maps, predictorParams, isCalculating,
                 calculationCancel, closed, useMLPrediction>>
  /\ WorkerFrame
  /\ UNCHANGED engineVars

\* service.go:139-144: the deferred reset
WCleanup(r) ==
  /\ worker[r].pc = "cleanup"
  /\ mu = WorkerThread(r)
  /\ isCalculating' = FALSE
  /\ calculationCancel' = NoChan
  /\ mu' = Unlock(r)
  /\ worker' = Goto(r, "done")
  /\ UNCHANGED <<params, heap, maps, predictorParams, closed,
                 useMLPrediction, progress>>
  /\ WorkerFrame
  /\ UNCHANGED engineVars

\* ------------------------------------------------------------- SetClient
\* service.go:63-67
SetClient(c) ==
  /\ mu = Free
  /\ client' = c
  /\ UNCHANGED <<now, mu, params, heap, maps, predictorParams, lastPrediction,
                 isCalculating, calculationCancel, closed, useMLPrediction,
                 progress, worker, started, startResult>>
  /\ UNCHANGED <<cacheVars, fcVars, callerVars, pr, engineVars, analysis>>

\* ------------------------------------------------------- the forecast calls
Kinds == {"GetPrediction", "GetPredictionWithScenario", "GetIOBCOB", "RefreshCache"}

\* what the data source can answer: a fetch error, or a history (newest first)
Histories == {<<>>, <<120>>}
TreatmentLists == {<<>>, <<5>>}
FetchError == [ok |-> FALSE, data |-> <<>>]
EntriesAnswers == {FetchError} \cup {[ok |-> TRUE, data |-> h] : h \in Histories}
TreatmentsAnswers == {FetchError} \cup {[ok |-> TRUE, data |-> t] : t \in TreatmentLists}

\* what a forecast-side call leaves alone unless a step says otherwise
ForecastFrame ==
  /\ UNCHANGED <<now, client, params, heap, maps, predictorParams,
                 isCalculating, calculationCancel, closed, useMLPrediction,
                 progress, worker, started, startResult>>
  /\ UNCHANGED <<callerVars, pr, engineVars, analysis>>

\* service.go:327, 384, 416, 523: where each call starts
FirstPc(kind) ==
  CASE kind = "GetIOBCOB" -> "lock"
    [] kind = "RefreshCache" -> "invalidate"
    [] OTHER -> "read"

FBegin(kind) ==
  /\ fc.pc \in {"idle", "return"}
  /\ calls < MaxCalls
  /\ calls' = calls + 1
  /\ fc' = [IdleCall EXCEPT !.kind = kind, !.pc = FirstPc(kind),
                            !.during = isCalculating]
  /\ UNCHANGED <<mu, lastPrediction>>
  /\ UNCHANGED cacheVars
  /\ ForecastFrame

\* service.go:328-335 and 385-391: the read-locked look at s.client (and, in
\* GetPrediction, at s.useMLPrediction)
FRead ==
  /\ fc.pc = "read"
  /\ mu = Free
  /\ fc' = IF client
             THEN [fc EXCEPT !.pc = "lock", !.client = TRUE,
                             !.useML = (fc.kind = "GetPrediction" /\ useMLPrediction)]
             ELSE [fc EXCEPT !.pc = "return", !.err = "no client configured"]
  /\ UNCHANGED <<mu, lastPrediction, calls>>
  /\ UNCHANGED cacheVars
  /\ ForecastFrame

\* service.go:524-526
FInvalidate ==
  /\ fc.pc = "invalidate"
  /\ mu = Free
  /\ cacheTime' = ZeroTime
  /\ fc' = [fc EXCEPT !.pc = "lock"]
  /\ UNCHANGED <<mu, lastPrediction, calls, cachedEntries, cachedTreatments>>
  /\ ForecastFrame

\* service.go:434
FLock ==
  /\ fc.pc = "lock"
  /\ mu = Free
  /\ mu' = Forecaster
  /\ fc' = [fc EXCEPT !.pc = "body"]
  /\ UNCHANGED <<lastPrediction, calls>>
  /\ UNCHANGED cacheVars
  /\ ForecastFrame

\* a freshness test that still accepts the cache when the TTL has just elapsed
CacheFreshAtExpiry ==
  /\ cacheTime # ZeroTime
  /\ now - cacheTime <= cacheDuration
  /\ Len(cachedEntries) > 0

\* service.go:438  time.Since(s.cacheTime) < s.cacheDuration && len(s.cachedEntries) > 0
CacheFresh ==
  /\ cacheTime # ZeroTime
  /\ now - cacheTime < cacheDuration
  /\ Len(cachedEntries) > 0

\* service.go:343-345, 398-400, 422-424: what the caller of getRecentData
\* does with a history: the next position and the error it returns
AfterData(kind, entries) ==
  CASE kind = "RefreshCache" -> [pc |-> "return", err |-> "nil"]
    [] Len(entries) = 0 /\ kind = "GetIOBCOB" -> [pc |-> "return", err |-> "nil"]
    [] Len(entries) = 0 -> [pc |-> "return", err |-> "no glucose data available"]
    [] OTHER -> [pc |-> "predict", err |-> "nil"]

\* a failed fetch that also throws the cache away
FailedFetchDroppingCache(stage, n) ==
  /\ fc' = [fc EXCEPT !.pc = "return", !.err = stage, !.cause = "fetch error",
                      !.fetched = n]
  /\ cachedEntries' = <<>>
  /\ cachedTreatments' = <<>>
  /\ cacheTime' = ZeroTime

\* service.go:444-452: a failed fetch makes getRecentData return the wrapped
\* error before it has assigned anything to the cache.  n is the number of
\* requests made to the data source.
FailedFetch(stage, n) ==
  /\ fc' = [fc EXCEPT !.pc = "return", !.err = stage, !.cause = "fetch error",
                      !.fetched = n]
  /\ UNCHANGED cacheVars

\* service.go:437-463, the body of getRecentData, and the return into its
\* caller.  eo and to are the answers of the data source to the two fetches.
FBody(eo, to) ==
  /\ fc.pc = "body"
  /\ mu = Forecaster
  /\ mu' = Free
  /\ IF CacheFresh
       THEN /\ fc' = [fc EXCEPT !.entries = cachedEntries,
                                !.treatments = cachedTreatments,
                                !.pc = AfterData(fc.kind, cachedEntries).pc,
                                !.err = AfterData(fc.kind, cachedEntries).err]
            /\ UNCHANGED cacheVars
     ELSE IF ~client
       THEN /\ fc' = [fc EXCEPT !.pc = "return", !.err = "no client configured"]
            /\ UNCHANGED cacheVars
     ELSE IF eo = FetchError
       THEN FailedFetch("fetching entries", 1)
     ELSE IF to = FetchError
       THEN FailedFetch("fetching treatments", 2)
     ELSE /\ cachedEntries' = eo.data
          /\ cachedTreatments' = to.data
          /\ cacheTime' = now
          /\ fc' = [fc EXCEPT !.entries = eo.data, !.treatments = to.data,
                              !.fetched = 2,
                              !.pc = AfterData(fc.kind, eo.data).pc,
                              !.err = AfterData(fc.kind, eo.data).err]
  /\ UNCHANGED <<lastPrediction, calls>>
  /\ ForecastFrame

\* the engine a forecast runs on: service.go:353-367, 405, 429
Engine == IF fc.useML THEN "orefEngine" ELSE "predictor"

\* The first parameter read of a forecast: p.params.DIA in calculateIOB
\* (part_014:140), e.params.ISF in the first step of the curves
\* (part_013:1281).  No lock is held.
FPredictFirst ==
  /\ fc.pc = "predict"
  /\ fc' = [fc EXCEPT !.pc = "predictRange", !.first = predictorParams[Engine]]
  /\ UNCHANGED <<mu, lastPrediction, calls>>
  /\ UNCHANGED cacheVars
  /\ ForecastFrame

\* The parameter object a later part of the same forecast reads: the
\* pointer is read again at every use (part_014:248-254, part_013:1332).
LaterRead(engine) == predictorParams[engine]

\* one curve point per hour instead of one per five minutes
curveLengthHourly(horizon) == horizon \div 60

\* part_013:1232  steps := e.config.PredictionHorizonMinutes / 5
curveLength(horizon) == horizon \div 5

\* part_013:1208-1209: curves.Final[:24] and curves.Final[24:] need a curve of
\* 24 points or more; Predictor.Predict slices nothing.
PredictPanics(engine) ==
  engine = "orefEngine" /\ curveLength(PredictionHorizonMinutes) < ShortTermPoints

\* the rest of Predict; GetPrediction goes on to store the result
FPredictRange ==
  /\ fc.pc = "predictRange"
  /\ fc' = IF PredictPanics(Engine)
             THEN [fc EXCEPT !.pc = "panic"]
             ELSE [fc EXCEPT !.pc = IF fc.kind = "GetPrediction" THEN "store"
                                                                ELSE "return",
                             !.result = [engine |-> Engine, glucose |-> fc.entries[1],
                                         first |-> fc.first,
                                         second |-> LaterRead(Engine)]]
  /\ UNCHANGED <<mu, lastPrediction, calls>>
  /\ UNCHANGED cacheVars
  /\ ForecastFrame

\* service.go:369-373
FStore ==
  /\ fc.pc = "store"
  /\ mu = Free
  /\ lastPrediction' = fc.result
  /\ fc' = [fc EXCEPT !.pc = "return"]
  /\ UNCHANGED <<mu, calls>>
  /\ UNCHANGED cacheVars
  /\ ForecastFrame

\* ------------------------------------------------------------ GetParameters
\* service.go:70-76: p := *s.params copies the struct; the copy's three map
\* fields refer to the same map objects as the original.
GetParameters ==
  /\ mu = Free
  /\ got' = [id |-> params, scalars |-> heap[params], held |-> TRUE]
  /\ UNCHANGED <<now, client, mu, params, heap, maps, predictorParams,
                 lastPrediction, isCalculating, calculationCancel, closed,
                 useMLPrediction, progress, worker, started, startResult,
                 mutations>>
  /\ UNCHANGED <<cacheVars, fcVars, pr, engineVars, analysis>>

CallerValues == {7}

\* the caller assigns to a scalar field of the value it was given
MutateScalar(v) ==
  /\ got.held
  /\ mutations < MaxMutations
  /\ mutations' = mutations + 1
  /\ got' = [got EXCEPT !.scalars.ISF = v]
  /\ UNCHANGED <<now, client, mu, params, heap, maps, predictorParams,
                 lastPrediction, isCalculating, calculationCancel, closed,
                 useMLPrediction, progress, worker, started, startResult>>
  /\ UNCHANGED <<cacheVars, fcVars, pr, engineVars, analysis>>

\* the caller assigns to an entry of one of the maps of that value
MutateMap(f, p, v) ==
  /\ got.held
  /\ mutations < MaxMutations
  /\ mutations' = mutations + 1
  /\ maps' = [maps EXCEPT ![<<got.id, f>>][p] = v]
  /\ UNCHANGED <<now, client, mu, params, heap, predictorParams,
                 lastPrediction, isCalculating, calculationCancel, closed,
                 useMLPrediction, progress, worker, started, startResult, got>>
  /\ UNCHANGED <<cacheVars, fcVars, pr, engineVars, analysis>>

\* ------------------------------------------------------------------- time
Tick ==
  /\ now < MaxTime
  /\ now' = now + 1
  /\ UNCHANGED <<client, mu, params, heap, maps, predictorParams, lastPrediction,
                 isCalculating, calculationCancel, closed, useMLPrediction,
                 progress, worker, started, startResult>>
  /\ UNCHANGED <<cacheVars, fcVars, callerVars, pr, engineVars, analysis>>

\* part_017:277, 282, 287-297.  Every treatment of the model is given at the
\* moment of the prediction, and one that has insulin is a bolus.
HasInsulin(t) == t.insulin > 0

HasCarbs(t) == t.carbs > 0

\* ------------------------------------------------------ Predictor (part_014)
\* The predictor works on the parameters the service starts with.
\* part_014:349-373, in thousandths
insulinActivityRemaining(m) ==
  IF m <= 0 THEN 1000
  ELSE IF m >= DefaultDIA * 60 THEN 0
  ELSE IF m < 75 THEN 1000 - (m * 100) \div 75
  ELSE (900 * (DefaultDIA * 60 - m)) \div (DefaultDIA * 60 - 75)

\* part_014:247-284
RECURSIVE calculateInsulinEffect(_, _)
calculateInsulinEffect(ts, m) ==
  IF ts = <<>> THEN 0
  ELSE LET t == ts[Len(ts)]
           totalEffect == calculateInsulinEffect(SubSeq(ts, 1, Len(ts) - 1), m)
           activityUsed == insulinActivityRemaining(0) - insulinActivityRemaining(m)
       IN IF ~HasInsulin(t) \/ m > DefaultDIA * 60 \/ activityUsed <= 0
            THEN totalEffect
            ELSE FAdd(totalEffect, FNeg(FScale(t.insulin, activityUsed * DefaultISF, 1000)))

\* part_014:376-393: the grams absorbed after m minutes
carbsAbsorbed(totalCarbs, m, absorptionTime) ==
  IF m <= 0 THEN 0
  ELSE IF m >= absorptionTime THEN totalCarbs
  ELSE FScale(totalCarbs, Logistic((100 * m) \div absorptionTime - 50), 1000)

\* part_014:287-329
RECURSIVE calculateCarbEffect(_, _)
calculateCarbEffect(ts, m) ==
  IF ts = <<>> THEN 0
  ELSE LET t == ts[Len(ts)]
           totalEffect == calculateCarbEffect(SubSeq(ts, 1, Len(ts) - 1), m)
           carbsAbsorbedInPeriod == carbsAbsorbed(t.carbs, m, 180)
       IN IF ~HasCarbs(t) \/ m > 180 \/ ~FLess(0, carbsAbsorbedInPeriod)
            THEN totalEffect
            ELSE FAdd(totalEffect, FScale(carbsAbsorbedInPeriod, DefaultISF, DefaultICR))

\* part_014:332-346
calculateTrendEffect(trend, m) ==
  IF m <= 30 THEN trend * (m \div 5)
  ELSE trend * 6 + (trend * ((m - 30) \div 5) * ExpNeg((m - 30) \div 5)) \div 1000

\* part_014:396-408
applyConstraints(value) ==
  LET low == IF FLess(value, SafeMin) THEN SafeMin ELSE value
  IN IF FLess(SafeMax, low) THEN SafeMax ELSE low

\* part_014:58-76: duration and interval of the two ranges, in minutes
Range(range) ==
  IF range = "short" THEN [duration |-> 120, interval |-> 5]
                     ELSE [duration |-> 360, interval |-> 15]

\* part_014:93  steps := int(duration / interval)
RangeSteps(range) == Range(range).duration \div Range(range).interval

\* part_014:96-116: the value of one point of predictRange
predictedValue(prev, trend, ts, m) ==
  applyConstraints(
    FAdd(FAdd(FAdd(prev, calculateInsulinEffect(ts, m)), calculateCarbEffect(ts, m)),
         calculateTrendEffect(trend, m)))

\* ----------------------------------------------------- OrefEngine (part_013)
\* part_013:775-788, DefaultOrefConfig
OrefConfig ==
  [InsulinPeakMinutes |-> 75, DIAMinutes |-> 300, CarbAbsorptionDefault |-> 180,
   Min5mCarbImpact |-> 8]

\* A learned meal pattern and a learned correction pattern that match the
\* situation of the prediction (part_013:1437-1439, 1459-1461): the rise the
\* meal pattern recorded, the length of its curve, and the ISF the correction
\* pattern recorded.
LearnedPatterns == [rise |-> 80, curve |-> 36, ActualISF |-> 40]

\* minutes / tau in tenths, tau == peak * (1 - peak/dia)  (part_013:1548)
OrefTenths(t) ==
  (t * 10 * OrefConfig.DIAMinutes)
    \div (OrefConfig.InsulinPeakMinutes
            * (OrefConfig.DIAMinutes - OrefConfig.InsulinPeakMinutes))

\* part_013:1535-1558, in thousandths
OrefInsulinActivityRemaining(t) ==
  IF t <= 0 THEN 1000
  ELSE IF t >= OrefConfig.DIAMinutes THEN 0
  ELSE LET peak == OrefConfig.InsulinPeakMinutes
           dia == OrefConfig.DIAMinutes
           a == (2000 * peak * (dia - peak)) \div (dia * dia)
           S == 1000000 \div (1000 - a + ((1000 + a) * ExpNeg(OrefTenths(dia))) \div 1000)
           rise == ((1000 + 100 * OrefTenths(t)) * ExpNeg(OrefTenths(t))) \div 1000
           remaining == 1000 - (S * (1000 - rise)) \div 1000
       IN IF remaining < 0 THEN 0 ELSE IF remaining > 1000 THEN 1000 ELSE remaining

\* part_013:1562-1596: the grams absorbed after m minutes
OrefCarbsAbsorbed(totalCarbs, m) ==
  IF m <= 0 THEN 0
  ELSE LET absorptionTime ==
             IF totalCarbs > 60 THEN (OrefConfig.CarbAbsorptionDefault * 13) \div 10
             ELSE IF totalCarbs < 20 THEN (OrefConfig.CarbAbsorptionDefault * 7) \div 10
             ELSE OrefConfig.CarbAbsorptionDefault
           absorbed == (totalCarbs * Logistic((80 * m) \div absorptionTime - 28)) \div 1000
           minAbsorbed == ((m \div 5) * OrefConfig.Min5mCarbImpact * DefaultICR) \div DefaultISF
       IN IF m >= absorptionTime THEN totalCarbs
          ELSE MathMin(MathMax(absorbed, minAbsorbed), totalCarbs)

\* part_013:1283-1296
RECURSIVE OrefInsulinEffect(_, _, _)
OrefInsulinEffect(ts, m, adjustedISF) ==
  IF ts = <<>> THEN 0
  ELSE LET t == ts[Len(ts)]
           insulinEffect == OrefInsulinEffect(SubSeq(ts, 1, Len(ts) - 1), m, adjustedISF)
           activityUsed == OrefInsulinActivityRemaining(0) - OrefInsulinActivityRemaining(m)
       IN IF ~HasInsulin(t) \/ activityUsed <= 0
            THEN insulinEffect
            ELSE FAdd(insulinEffect, FNeg(FScale(t.insulin, activityUsed * adjustedISF, 1000)))

\* part_013:1270-1319
predictIOBOnly(currentBG, momentum, ts, m, hour) ==
  LET adjustedISF == (DefaultISF * HourlySensitivity[hour + 1]) \div 100
      insulinEffect == OrefInsulinEffect(ts, m, adjustedISF)
      momentumEffect == (momentum * (m \div 5) * ExpNeg((3 * m) \div 10)) \div 1000
  IN [Value |-> MathMax(SafeMin, MathMin(SafeMax,
                           FAdd(FAdd(currentBG, insulinEffect), momentumEffect))),
      InsulinEffect |-> insulinEffect, CarbEffect |-> 0,
      MomentumEffect |-> momentumEffect]

\* part_013:1336-1349
RECURSIVE OrefCarbEffect(_, _, _)
OrefCarbEffect(ts, m, hour) ==
  IF ts = <<>> THEN 0
  ELSE LET t == ts[Len(ts)]
           carbEffect == OrefCarbEffect(SubSeq(ts, 1, Len(ts) - 1), m, hour)
           absorbedInWindow == OrefCarbsAbsorbed(t.carbs, m)
       IN IF ~HasCarbs(t) \/ absorbedInWindow <= 0
            THEN carbEffect
            ELSE FAdd(carbEffect, FScale(absorbedInWindow, DefaultISF * HourlyICR[hour + 1],
                                         DefaultICR * 100))

\* part_013:1322-1356
predictWithCOB(currentBG, momentum, ts, m, hour) ==
  LET pred == predictIOBOnly(currentBG, momentum, ts, m, hour)
      carbEffect == OrefCarbEffect(ts, m, hour)
  IN [pred EXCEPT !.Value = MathMax(SafeMin, MathMin(SafeMax, FAdd(pred.Value, carbEffect))),
                  !.CarbEffect = carbEffect]

\* part_013:1359-1374
predictZeroTemp(currentBG, momentum, ts, m, hour) ==
  predictWithCOB(currentBG, momentum, ts, m, hour)

\* part_013:1377-1411.  With every treatment given at the moment of the
\* prediction the expected trend is 0 and the deviation is the recent trend.
predictUAM(currentBG, recentTrend, ts, m, hour) ==
  LET deviation == recentTrend
      uamEffect == IF deviation <= 0 THEN 0
                   ELSE IF m < 45 THEN (deviation * (m \div 5) * m) \div 45
                   ELSE (deviation * 9 * ExpNeg((m - 45) \div 5)) \div 1000
      pred == predictWithCOB(currentBG, recentTrend, ts, m, hour)
  IN [pred EXCEPT !.Value = MathMax(SafeMin, MathMin(SafeMax, FAdd(pred.Value, uamEffect)))]

\* part_013:1429-1454: the meal patterns' corrections, one for each treatment
\* with carbs
RECURSIVE MealCorrected(_, _, _, _)
MealCorrected(ts, value, currentBG, m) ==
  IF ts = <<>> THEN value
  ELSE LET t == ts[Len(ts)]
           before == MealCorrected(SubSeq(ts, 1, Len(ts) - 1), value, currentBG, m)
           expectedRise == FAdd(before, FNeg(currentBG))
           correction == FScale(FAdd(LearnedPatterns.rise, FNeg(expectedRise)), 3, 10)
       IN IF HasCarbs(t) /\ m \div 5 < LearnedPatterns.curve
            THEN FAdd(before, correction)
            ELSE before

\* part_013:1414-1478
predictML(currentBG, momentum, ts, m, hour, meal, correction) ==
  LET pred == predictWithCOB(currentBG, momentum, ts, m, hour)
      withMeal == IF meal THEN MealCorrected(ts, pred.Value, currentBG, m) ELSE pred.Value
      insulinEffect == FScale(pred.InsulinEffect, LearnedPatterns.ActualISF, DefaultISF)
      value == IF correction /\ currentBG > 180
                 THEN FAdd(FAdd(FAdd(currentBG, insulinEffect), pred.CarbEffect),
                           pred.MomentumEffect)
                 ELSE withMeal
  IN [pred EXCEPT !.Value = MathMax(SafeMin, MathMin(SafeMax, value))]

\* part_013:1489-1497: the candidate with the highest value, the first one
\* winning a tie; a comparison with NaN is false
RECURSIVE Highest(_, _)
Highest(best, ps) ==
  IF ps = <<>> THEN best
  ELSE Highest(IF FLess(best, ps[1]) THEN ps[1] ELSE best, Tail(ps))

\* part_013:1499-1523: the weighted average, weights in percent
Blend(vs) ==
  IF \E i \in 1..5 : vs[i] = NaN THEN NaN
  ELSE (vs[1] * 10 + vs[2] * 30 + vs[3] * 15 + vs[4] * 15 + vs[5] * 30) \div 100

\* part_013:1481-1529
selectConservativePrediction(iob, cob, zt, uam, ml, m) ==
  IF m <= 30 THEN Highest(iob, <<cob, zt, uam, ml>>)
  ELSE IF m <= 120 THEN Blend(<<iob, cob, zt, uam, ml>>)
  ELSE cob

\* part_013:1237-1255: the values of the five candidates of one step, in the
\* order iob, cob, zt, uam, ml
Candidates(currentBG, momentum, ts, m, hour, meal, correction) ==
  <<predictIOBOnly(currentBG, momentum, ts, m, hour).Value,
    predictWithCOB(currentBG, momentum, ts, m, hour).Value,
    predictZeroTemp(currentBG, momentum, ts, m, hour).Value,
    predictUAM(currentBG, momentum, ts, m, hour).Value,
    predictML(currentBG, momentum, ts, m, hour, meal, correction).Value>>

\* part_013:1233-1263: the final value of one step of generatePredictionCurves
FinalValue(currentBG, momentum, ts, m, hour, meal, correction) ==
  selectConservativePrediction(
    predictIOBOnly(currentBG, momentum, ts, m, hour).Value,
    predictWithCOB(currentBG, momentum, ts, m, hour).Value,
    predictZeroTemp(currentBG, momentum, ts, m, hour).Value,
    predictUAM(currentBG, momentum, ts, m, hour).Value,
    predictML(currentBG, momentum, ts, m, hour, meal, correction).Value,
    m)

\* part_014:124 and part_013:1727  math.Round(value*10) / 10: the values of the
\* model are whole numbers, which the rounding leaves as they are, as it does
\* the infinities and NaN
RoundTenth(v) == IF v = NaN THEN NaN ELSE (v * 10) \div 10

\* ----------------------------------------------- the prediction functions
Glucoses == {40, 250}
Trends == {-4, 4}
InsulinAmounts == {0, 6, MaxFloat}
CarbAmounts == {0, 45, MaxFloat}
ScenarioAmounts == {0, MaxFloat}
Hours == {6, 23}

\* the recent treatments: none, one with insulin, carbs or both, or two of the
\* largest amounts
TreatmentInputs ==
  {<<>>, <<[insulin |-> MaxFloat, carbs |-> MaxFloat],
           [insulin |-> MaxFloat, carbs |-> MaxFloat]>>}
    \cup {<<[insulin |-> x[1], carbs |-> x[2]]>> :
            x \in {y \in InsulinAmounts \X CarbAmounts : y[1] > 0 \/ y[2] > 0}}

coreVars == <<now, client, mu, params, heap, maps, predictorParams,
              lastPrediction, isCalculating, calculationCancel, closed,
              useMLPrediction, cachedEntries, cachedTreatments, cacheTime,
              progress, worker, started, startResult, fc, calls, got, mutations>>

serviceVars == <<coreVars, engineVars, analysis>>

\* the service at rest and the inputs of one prediction
InitPredict ==
  /\ InitService
  /\ pr \in {[NoRun EXCEPT !.pc = "ready", !.glucose = g, !.trend = t, !.treatments = ts] :
               g \in Glucoses, t \in Trends, ts \in TreatmentInputs}
  /\ analysis = NoAnalysis

\* part_014:31-56: Predictor.Predict up to its first predictRange call
Predict ==
  /\ pr.pc = "ready"
  /\ pr' = [pr EXCEPT !.pc = "range", !.engine = "Predict", !.range = "short",
                      !.prev = pr.glucose]
  /\ UNCHANGED serviceVars

\* part_014:433-456: the treatments get one more element, the hypothetical
\* treatment or, with no amount given, an empty one
PredictWithScenario(additionalInsulin, additionalCarbs) ==
  /\ pr.pc = "ready"
  /\ pr' = [pr EXCEPT !.pc = "range", !.engine = "PredictWithScenario",
                      !.range = "short", !.prev = pr.glucose,
                      !.treatments =
                         Append(pr.treatments,
                                IF additionalInsulin > 0 \/ additionalCarbs > 0
                                  THEN [insulin |-> additionalInsulin,
                                        carbs |-> additionalCarbs]
                                  ELSE [insulin |-> 0, carbs |-> 0])]
  /\ UNCHANGED serviceVars

\* part_014:96-132: one iteration of the loop of predictRange; the point is
\* i*interval after the start (part_014:104) and goes to result.ShortTerm
\* from the first call (part_014:57) and to result.LongTerm from the second
\* (part_014:68)
predictRange ==
  /\ pr.pc = "range"
  /\ pr.step < RangeSteps(pr.range)
  /\ LET m == (pr.step + 1) * Range(pr.range).interval
         v == predictedValue(pr.prev, pr.trend, pr.treatments, m)
     IN pr' = [pr EXCEPT !.step = pr.step + 1, !.prev = v, !.value = RoundTenth(v),
                         !.sequence = IF pr.range = "short" THEN "ShortTerm"
                                      ELSE "LongTerm",
                         !.minute = m,
                         !.pc = IF pr.range = "long" /\ pr.step + 1 = RangeSteps("long")
                                  THEN "done" ELSE "range"]
  /\ UNCHANGED serviceVars

\* part_014:66-76: the second predictRange call starts again from the current
\* glucose
PredictLongTerm ==
  /\ pr.pc = "range"
  /\ pr.range = "short"
  /\ pr.step = RangeSteps("short")
  /\ pr' = [pr EXCEPT !.range = "long", !.step = 0, !.prev = pr.glucose]
  /\ UNCHANGED serviceVars

\* part_013:1184-1195: OrefEngine.Predict at the hour and with the learned
\* patterns the engine has
OrefPredict(hour, learned) ==
  /\ pr.pc = "ready"
  /\ pr' = [pr EXCEPT !.pc = "curves", !.engine = "OrefEngine.Predict", !.hour = hour,
                      !.meal = learned, !.correction = learned]
  /\ UNCHANGED serviceVars

\* part_013:1232-1263: one iteration of the loop of generatePredictionCurves;
\* part_013:1207-1217: the first ShortTermPoints points of the final curve
\* become result.ShortTerm, the others result.LongTerm, each with the time of
\* its curve point (part_013:1726)
generatePredictionCurves ==
  /\ pr.pc = "curves"
  /\ pr.step < curveLength(PredictionHorizonMinutes)
  /\ LET m == (pr.step + 1) * 5
     IN pr' = [pr EXCEPT !.step = pr.step + 1,
                         !.sequence = IF pr.step + 1 <= ShortTermPoints
                                        THEN "ShortTerm" ELSE "LongTerm",
                         !.minute = m,
                         !.value = RoundTenth(FinalValue(pr.glucose, pr.trend, pr.treatments,
                                                         m, pr.hour, pr.meal, pr.correction)),
                         !.pc = IF pr.step + 1 = curveLength(PredictionHorizonMinutes)
                                  THEN "done" ELSE "curves"]
  /\ UNCHANGED serviceVars

\* ---------------------------------------------------------------- Analyzer
\* ISF, ICR, their samples and the insulin amounts are in tenths; DIA in tenths
\* of an hour.
\* part_017:287-297
IsBolus(t) ==
  \/ t.eventType \in {"Bolus", "Snack Bolus", "Meal Bolus", "Correction Bolus",
                      "Combo Bolus", "Bolus Wizard"}
  \/ (HasInsulin(t) /\ t.eventType # "Temp Basal")

\* models/prediction.go:70-82, of the hour of a time in minutes
GetTimeOfDayPeriod(minute) ==
  LET hour == (minute % 1440) \div 60
  IN IF hour >= 6 /\ hour < 11 THEN "morning"
     ELSE IF hour >= 11 /\ hour < 17 THEN "midday"
     ELSE IF hour >= 17 /\ hour < 22 THEN "evening"
     ELSE "night"

\* the bounds test of a sample num/den: analyzer.go:259, 297 (bounds
\* included) and 834, 877 (bounds excluded)
WithinAlways(num, den, lo, hi, inclusive) == TRUE

Within(num, den, lo, hi, inclusive) ==
  IF inclusive THEN num >= lo * den /\ num <= hi * den
  ELSE num > lo * den /\ num < hi * den

\* math.Min(100, float64(n)*k)
Confidence(n, k) == IF n * k > 100 THEN 100 ELSE n * k

\* the values of the samples at the places idx of the events
Samples(events, idx, value(_)) == [k \in 1..Len(idx) |-> value(events[idx[k]])]

\* the places of a sequence whose element passes the test
Places(seq, Test(_)) ==
  LET ok(i) == Test(seq[i])
  IN SelectSeq([i \in 1..Len(seq) |-> i], ok)

\* analyzer.go:465-521: index is the place of the treatment in the list
findCorrectionEvents(ts) ==
  LET other(i, j) ==
        /\ ts[j].minute > ts[i].minute /\ ts[j].minute < ts[i].minute + 180
        /\ ts[j].id # ts[i].id
        /\ (HasInsulin(ts[j]) \/ HasCarbs(ts[j]))
      found(i) ==
        /\ HasInsulin(ts[i]) /\ ~HasCarbs(ts[i]) /\ IsBolus(ts[i])
        /\ ts[i].bgBefore # 0
        /\ ts[i].bgAfter3h # 0
        /\ ~\E j \in 1..Len(ts) : other(i, j)
      idx == SelectSeq([i \in 1..Len(ts) |-> i], found)
  IN [k \in 1..Len(idx) |->
        [index |-> idx[k], minute |-> ts[idx[k]].minute,
         InsulinUnits |-> ts[idx[k]].insulin,
         BGBefore |-> ts[idx[k]].bgBefore,
         BGDrop |-> ts[idx[k]].bgBefore - ts[idx[k]].bgAfter3h,
         TimeToStable |-> ts[idx[k]].stable]]

\* analyzer.go:523-559
findMealEvents(ts) ==
  LET found(i) ==
        /\ HasInsulin(ts[i]) /\ HasCarbs(ts[i])
        /\ ts[i].bgBefore # 0
        /\ ts[i].bgAfter3h # 0
      idx == SelectSeq([i \in 1..Len(ts) |-> i], found)
  IN [k \in 1..Len(idx) |->
        [index |-> idx[k], minute |-> ts[idx[k]].minute,
         InsulinUnits |-> ts[idx[k]].insulin, Carbs |-> ts[idx[k]].carbs,
         BGBefore |-> ts[idx[k]].bgBefore, BGAfter |-> ts[idx[k]].bgAfter3h]]

\* analyzer.go:189-239: the insulin, and the bolus insulin, of the days that
\* have some; divisors records the divisors of the two averages, and a
\* quotient 0/0 of float64 is NaN
calculateDailyAverages(ts, p) ==
  LET insulinDays == {ts[i].minute \div 1440 : i \in {j \in 1..Len(ts) : HasInsulin(ts[j])}}
      bolusDays == {ts[i].minute \div 1440 :
                      i \in {j \in 1..Len(ts) : HasInsulin(ts[j]) /\ IsBolus(ts[j])}}
      total == SumAt([i \in 1..Len(ts) |-> ts[i].insulin],
                     [i \in 1..Len(ts) |-> i - 1])
      totalBolus == SumAt([i \in 1..Len(ts) |->
                             IF HasInsulin(ts[i]) /\ IsBolus(ts[i]) THEN ts[i].insulin ELSE 0],
                          [i \in 1..Len(ts) |-> i - 1])
      TotalDailyInsulin == total \div Cardinality(insulinDays)
      BolusInsulin == IF bolusDays = {} THEN NaN
                      ELSE totalBolus \div Cardinality(bolusDays)
  IN IF insulinDays = {} THEN p
     ELSE [p EXCEPT !.TotalDailyInsulin = TotalDailyInsulin,
                    !.BolusInsulin = BolusInsulin,
                    !.BasalInsulin = FAdd(TotalDailyInsulin, FNeg(BolusInsulin)),
                    !.divisors = @ \o <<Cardinality(insulinDays), Cardinality(bolusDays)>>]

\* |BGDrop| * 10 and InsulinUnits of a correction event: its sample is their
\* quotient
Drop10(e) == 10 * (IF e.BGDrop < 0 THEN 0 - e.BGDrop ELSE e.BGDrop)

\* analyzer.go:242-273; isfEvents and isfRejected record the treatments whose
\* samples entered the median and the number of samples the bounds excluded
calculateISF(ts, p) ==
  LET events == findCorrectionEvents(ts)
      sample(e) == e.InsulinUnits > 0 /\ e.BGDrop # 0
      good(e) == sample(e) /\ Within(Drop10(e), e.InsulinUnits, 10, 150, TRUE)
      bad(e) == sample(e) /\ ~Within(Drop10(e), e.InsulinUnits, 10, 150, TRUE)
      isf(e) == (Drop10(e) * 10) \div e.InsulinUnits
      idx == Places(events, good)
      isfValues == Samples(events, idx, isf)
      rule == IF p.TotalDailyInsulin > 0
                THEN [p EXCEPT !.ISF = Sat(180000 \div p.TotalDailyInsulin),
                               !.ISFConfidence = 30]
                ELSE p
      q == [p EXCEPT !.isfRejected = Len(Places(events, bad)),
                     !.isfEvents = [k \in 1..Len(idx) |-> events[idx[k]].index],
                     !.isfValues = isfValues]
  IN IF events = <<>>
       THEN [rule EXCEPT !.ISFConfidence = 30]
     ELSE IF isfValues # <<>>
       THEN [q EXCEPT !.ISF = median(isfValues),
                      !.ISFConfidence = Confidence(Len(isfValues), 5)]
     ELSE [rule EXCEPT !.isfRejected = q.isfRejected]

\* analyzer.go:276-311
calculateICR(ts, p) ==
  LET events == findMealEvents(ts)
      sample(e) == /\ e.InsulinUnits > 0 /\ e.Carbs > 0
                   /\ Near(e.BGAfter, e.BGBefore, 50)
      good(e) == sample(e) /\ Within(e.Carbs * 10, e.InsulinUnits, 3, 40, TRUE)
      bad(e) == sample(e) /\ ~Within(e.Carbs * 10, e.InsulinUnits, 3, 40, TRUE)
      icr(e) == (e.Carbs * 100) \div e.InsulinUnits
      idx == Places(events, good)
      icrValues == Samples(events, idx, icr)
      rule == IF p.TotalDailyInsulin > 0
                THEN [p EXCEPT !.ICR = Sat(50000 \div p.TotalDailyInsulin),
                               !.ICRConfidence = 30]
                ELSE p
      q == [p EXCEPT !.icrRejected = Len(Places(events, bad)),
                     !.icrEvents = [k \in 1..Len(idx) |-> events[idx[k]].index],
                     !.icrValues = icrValues]
  IN IF events = <<>>
       THEN [rule EXCEPT !.ICRConfidence = 30]
     ELSE IF icrValues # <<>>
       THEN [q EXCEPT !.ICR = median(icrValues),
                      !.ICRConfidence = Confidence(Len(icrValues), 5)]
     ELSE [rule EXCEPT !.icrRejected = q.icrRejected]

\* analyzer.go:314-343
calculateDIA(ts, p) ==
  LET events == findCorrectionEvents(ts)
      good(e) == e.TimeToStable > 0 /\ e.TimeToStable >= 120 /\ e.TimeToStable <= 360
      dia(e) == e.TimeToStable \div 6
      diaValues == Samples(events, Places(events, good), dia)
  IN IF Len(events) < 5 \/ diaValues = <<>>
       THEN [p EXCEPT !.DIA = 40, !.DIAConfidence = 20,
                      !.diaValues = IF Len(events) < 5 THEN <<>> ELSE diaValues]
       ELSE [p EXCEPT !.DIA = median(diaValues),
                      !.DIAConfidence = Confidence(Len(diaValues), 10),
                      !.diaValues = diaValues]

\* analyzer.go:375-443: isfByPeriod and icrByPeriod record the number of
\* samples of each period
calculateTimeOfDayVariations(ts, p) ==
  LET corrections == findCorrectionEvents(ts)
      meals == findMealEvents(ts)
      isf(e) == (Drop10(e) * 10) \div e.InsulinUnits
      icr(e) == (e.Carbs * 100) \div e.InsulinUnits
      isfByPeriod(period) ==
        LET in(e) == /\ GetTimeOfDayPeriod(e.minute) = period
                     /\ e.InsulinUnits > 0 /\ e.BGDrop # 0
                     /\ Within(Drop10(e), e.InsulinUnits, 10, 150, TRUE)
        IN Samples(corrections, Places(corrections, in), isf)
      icrByPeriod(period) ==
        LET in(e) == /\ GetTimeOfDayPeriod(e.minute) = period
                     /\ e.InsulinUnits > 0 /\ e.Carbs > 0
                     /\ Near(e.BGAfter, e.BGBefore, 50)
                     /\ Within(e.Carbs * 10, e.InsulinUnits, 3, 40, TRUE)
        IN Samples(meals, Places(meals, in), icr)
  IN [p EXCEPT !.ISFByTimeOfDay =
                  [period \in Periods |-> IF Len(isfByPeriod(period)) >= 3
                                            THEN median(isfByPeriod(period))
                                            ELSE p.ISF],
               !.ICRByTimeOfDay =
                  [period \in Periods |-> IF Len(icrByPeriod(period)) >= 3
                                            THEN median(icrByPeriod(period))
                                            ELSE p.ICR],
               !.isfByPeriod = [period \in Periods |-> Len(isfByPeriod(period))],
               !.icrByPeriod = [period \in Periods |-> Len(icrByPeriod(period))]]

\* models/prediction.go:171-181, NewDiabetesParameters, as the analyzer fills
\* it: the confidences and the daily insulin are 0, the maps are empty (0
\* stands for a missing key)
NewAnalysis(mode, ts) ==
  [pc |-> "done", mode |-> mode, treatments |-> ts, events |-> 0,
   entries |-> <<>>, err |-> "nil",
   EntriesAnalyzed |-> 0, TreatmentsAnalyzed |-> 0, CalculatedAt |-> 0,
   ISF |-> 10 * DefaultISF, ICR |-> 10 * DefaultICR, DIA |-> 10 * DefaultDIA,
   ISFConfidence |-> 0, ICRConfidence |-> 0, DIAConfidence |-> 0,
   TotalDailyInsulin |-> 0, BolusInsulin |-> 0, BasalInsulin |-> 0, divisors |-> <<>>,
   ISFByTimeOfDay |-> [period \in Periods |-> 0],
   ICRByTimeOfDay |-> [period \in Periods |-> 0],
   isfValues |-> <<>>, icrValues |-> <<>>, diaValues |-> <<>>,
   isfEvents |-> <<>>, icrEvents |-> <<>>, isfRejected |-> 0, icrRejected |-> 0,
   isfByPeriod |-> [period \in Periods |-> 0],
   icrByPeriod |-> [period \in Periods |-> 0]]

\* analyzer.go:49-120, AnalyzeData: the stages that give ISF, ICR and DIA
AnalyzeData(ts) ==
  calculateTimeOfDayVariations(ts,
    calculateDIA(ts,
      calculateICR(ts,
        calculateISF(ts,
          calculateDailyAverages(ts, NewAnalysis("statistical", ts))))))

\* analyzer.go:737-811: the vectors of the treatments with a reading before
\* and a reading 1 or 2 hours later
buildFeatureVectors(ts) ==
  LET found(i) ==
        /\ HasInsulin(ts[i]) \/ HasCarbs(ts[i])
        /\ ts[i].bgBefore > 0
        /\ (ts[i].bgAfter1h > 0 \/ ts[i].bgAfter2h > 0)
      idx == SelectSeq([i \in 1..Len(ts) |-> i], found)
  IN [k \in 1..Len(idx) |->
        LET t == ts[idx[k]]
        IN [index |-> idx[k], TimeOfDay |-> GetTimeOfDayPeriod(t.minute),
            InsulinDose |-> t.insulin, CarbIntake |-> t.carbs,
            GlucoseBefore |-> t.bgBefore,
            GlucoseChange1h |-> IF t.bgAfter1h > 0 THEN t.bgAfter1h - t.bgBefore ELSE 0,
            GlucoseChange2h |-> IF t.bgAfter2h > 0 THEN t.bgAfter2h - t.bgBefore ELSE 0]]

\* analyzer.go:813-854
calculateISFML(vectors, p) ==
  LET change(v) == IF v.GlucoseChange2h = 0 THEN v.GlucoseChange1h ELSE v.GlucoseChange2h
      sample(v) == /\ v.InsulinDose > 0 /\ v.CarbIntake <= 0
                   /\ v.GlucoseBefore >= 150
                   /\ change(v) < 0
      good(v) == sample(v) /\ Within(0 - 10 * change(v), v.InsulinDose, 10, 200, FALSE)
      bad(v) == sample(v) /\ ~Within(0 - 10 * change(v), v.InsulinDose, 10, 200, FALSE)
      isf(v) == (0 - 100 * change(v)) \div v.InsulinDose
      idx == Places(vectors, good)
      isfValues == Samples(vectors, idx, isf)
      isfByTimeOfDay(period) ==
        LET in(v) == good(v) /\ v.TimeOfDay = period
        IN Samples(vectors, Places(vectors, in), isf)
      q == [p EXCEPT !.isfRejected = Len(Places(vectors, bad)),
                     !.isfEvents = [k \in 1..Len(idx) |-> vectors[idx[k]].index],
                     !.isfValues = isfValues]
  IN IF isfValues = <<>> THEN q
     ELSE [q EXCEPT !.ISF = median(isfValues),
                    !.ISFConfidence = Confidence(Len(isfValues), 5),
                    !.ISFByTimeOfDay =
                       [period \in Periods |->
                          IF Len(isfByTimeOfDay(period)) >= 3
                            THEN median(isfByTimeOfDay(period))
                          ELSE IF Len(isfByTimeOfDay(period)) > 0
                            THEN median(isfValues)
                          ELSE 0]]

\* analyzer.go:856-897
calculateICRML(vectors, p) ==
  LET change(v) == IF v.GlucoseChange2h = 0 THEN v.GlucoseChange1h ELSE v.GlucoseChange2h
      sample(v) == /\ v.CarbIntake > 0 /\ v.InsulinDose > 0
                   /\ v.GlucoseBefore >= 70 /\ v.GlucoseBefore <= 180
                   /\ Near(change(v), 0, 50)
      good(v) == sample(v) /\ Within(10 * v.CarbIntake, v.InsulinDose, 3, 30, FALSE)
      bad(v) == sample(v) /\ ~Within(10 * v.CarbIntake, v.InsulinDose, 3, 30, FALSE)
      icr(v) == (100 * v.CarbIntake) \div v.InsulinDose
      idx == Places(vectors, good)
      icrValues == Samples(vectors, idx, icr)
      icrByTimeOfDay(period) ==
        LET in(v) == good(v) /\ v.TimeOfDay = period
        IN Samples(vectors, Places(vectors, in), icr)
      q == [p EXCEPT !.icrRejected = Len(Places(vectors, bad)),
                     !.icrEvents = [k \in 1..Len(idx) |-> vectors[idx[k]].index],
                     !.icrValues = icrValues]
  IN IF icrValues = <<>> THEN q
     ELSE [q EXCEPT !.ICR = median(icrValues),
                    !.ICRConfidence = Confidence(Len(icrValues), 5),
                    !.ICRByTimeOfDay =
                       [period \in Periods |->
                          IF Len(icrByTimeOfDay(period)) >= 3
                            THEN median(icrByTimeOfDay(period))
                          ELSE IF Len(icrByTimeOfDay(period)) > 0
                            THEN median(icrValues)
                          ELSE 0]]

\* analyzer.go:899-952: stable is the time of the first stable reading
calculateDIAML(ts, p) ==
  LET good(t) == /\ IsBolus(t) /\ t.carbs <= 0
                 /\ t.stable > 120 /\ t.stable < 420
      dia(t) == t.stable \div 6
      diaValues == Samples(ts, Places(ts, good), dia)
  IN IF Len(diaValues) > 3
       THEN [p EXCEPT !.DIA = median(diaValues),
                      !.DIAConfidence = Confidence(Len(diaValues), 8),
                      !.diaValues = diaValues]
       ELSE p

\* analyzer.go:1006-1062
calculateTimeOfDayVariationsML(vectors, p) ==
  LET periodVectors(period) ==
        LET in(v) == v.TimeOfDay = period
        IN Len(Places(vectors, in))
      isf(v) == (0 - 100 * v.GlucoseChange2h) \div v.InsulinDose
      icr(v) == (100 * v.CarbIntake) \div v.InsulinDose
      isfValues(period) ==
        LET in(v) == /\ v.TimeOfDay = period
                     /\ v.InsulinDose > 0 /\ v.CarbIntake = 0 /\ v.GlucoseChange2h < 0
                     /\ Within(0 - 10 * v.GlucoseChange2h, v.InsulinDose, 10, 200, FALSE)
        IN Samples(vectors, Places(vectors, in), isf)
      icrValues(period) ==
        LET in(v) == /\ v.TimeOfDay = period
                     /\ v.CarbIntake > 0 /\ v.InsulinDose > 0
                     /\ Near(v.GlucoseChange2h, 0, 50)
                     /\ Within(10 * v.CarbIntake, v.InsulinDose, 3, 30, FALSE)
        IN Samples(vectors, Places(vectors, in), icr)
      isfOf(period) ==
        IF periodVectors(period) >= 3 /\ Len(isfValues(period)) >= 2
          THEN median(isfValues(period)) ELSE p.ISFByTimeOfDay[period]
      icrOf(period) ==
        IF periodVectors(period) >= 3 /\ Len(icrValues(period)) >= 2
          THEN median(icrValues(period)) ELSE p.ICRByTimeOfDay[period]
  IN [p EXCEPT !.ISFByTimeOfDay =
                  [period \in Periods |-> IF isfOf(period) = 0 THEN p.ISF ELSE isfOf(period)],
               !.ICRByTimeOfDay =
                  [period \in Periods |-> IF icrOf(period) = 0 THEN p.ICR ELSE icrOf(period)],
               !.isfByPeriod =
                  [period \in Periods |->
                     IF periodVectors(period) >= 3 THEN Len(isfValues(period)) ELSE 0],
               !.icrByPeriod =
                  [period \in Periods |->
                     IF periodVectors(period) >= 3 THEN Len(icrValues(period)) ELSE 0]]

\* analyzer.go:643-720, AnalyzeDataML: the stages that give ISF, ICR and DIA;
\* the daily averages come last
AnalyzeDataML(ts) ==
  LET vectors == buildFeatureVectors(ts)
  IN calculateDailyAverages(ts,
       calculateTimeOfDayVariationsML(vectors,
         calculateDIAML(ts,
           calculateICRML(vectors,
             calculateISFML(vectors, NewAnalysis("ml", ts))))))

\* the histories a recalculation analyses, sorted by time as AnalyzeData
\* sorts them: n corrections and n meals 4 hours apart, each with readings
\* around it, and after them one of a few special cases.  The history of a
\* later analysis has as many clean events as the one before, or one more.
\* The entries of a history are the readings around its treatments.
AnalyzerHistories(k) ==
  LET correction(i) ==
        [NoTreatment EXCEPT !.id = i, !.eventType = "Correction Bolus", !.insulin = 20,
                            !.minute = 240 * i, !.bgBefore = 200, !.bgAfter1h = 170,
                            !.bgAfter2h = 140, !.bgAfter3h = 120, !.stable = 180]
      meal(i) ==
        [NoTreatment EXCEPT !.id = MaxEvents + i, !.eventType = "Meal Bolus",
                            !.insulin = 50, !.carbs = 50,
                            !.minute = 240 * (MaxEvents + i), !.bgBefore = 120,
                            !.bgAfter1h = 150, !.bgAfter2h = 140, !.bgAfter3h = 130]
      at == 240 * (2 * MaxEvents + 1)
      first == [NoTreatment EXCEPT !.id = 2 * MaxEvents + 1, !.minute = at]
      second == [NoTreatment EXCEPT !.id = 2 * MaxEvents + 2, !.minute = at + 60]
      high == [first EXCEPT !.eventType = "Correction Bolus", !.insulin = 20,
                            !.bgBefore = 450, !.bgAfter2h = 50, !.bgAfter3h = 50]
      edge == [first EXCEPT !.eventType = "Correction Bolus", !.insulin = 20,
                            !.bgBefore = 400, !.bgAfter2h = 120, !.bgAfter3h = 100]
      large == [first EXCEPT !.eventType = "Meal Bolus", !.insulin = 50, !.carbs = 250,
                             !.bgBefore = 120, !.bgAfter2h = 140, !.bgAfter3h = 130]
      clean == [first EXCEPT !.eventType = "Correction Bolus", !.insulin = 10,
                             !.bgBefore = 250, !.bgAfter2h = 200, !.bgAfter3h = 190]
      covered == [first EXCEPT !.eventType = "Meal Bolus", !.insulin = 40, !.carbs = 60,
                               !.bgBefore = 110, !.bgAfter2h = 150, !.bgAfter3h = 120]
      bolus == [second EXCEPT !.eventType = "Bolus", !.insulin = 30]
      basal == [first EXCEPT !.eventType = "Temp Basal", !.insulin = 100]
      Special ==
        {<<>>, <<high>>, <<edge>>, <<large>>, <<basal>>,
         <<clean, bolus>>, <<covered, bolus>>,
         <<[clean EXCEPT !.id = 0], [bolus EXCEPT !.id = 0]>>}
      readings(ts) ==
        SelectSeq([j \in 1..(4 * Len(ts)) |->
                     LET t == ts[(j - 1) \div 4 + 1]
                     IN CASE j % 4 = 1 -> t.bgBefore
                          [] j % 4 = 2 -> t.bgAfter1h
                          [] j % 4 = 3 -> t.bgAfter2h
                          [] OTHER -> t.bgAfter3h],
                  LAMBDA sgv : sgv > 0)
      history(n, ts) == [events |-> n, treatments |-> ts, entries |-> readings(ts)]
  IN {history(n, [i \in 1..n |-> correction(i)] \o [i \in 1..n |-> meal(i)] \o special) :
        n \in {k, k + 1} \cap 0..MaxEvents, special \in Special}

\* analyzer.go:102-120 and 702-720: the counts of the slices that were
\* passed and the wall-clock time go into the snapshot, which is returned
\* with a nil error
FinalizeQualifying(entries, ts, at, p) ==
  [p EXCEPT !.entries = entries, !.err = "nil",
            !.EntriesAnalyzed = Len(entries),
            !.TreatmentsAnalyzed = Len(p.isfEvents) + Len(p.icrEvents),
            !.CalculatedAt = at]

Finalize(entries, ts, at, p) ==
  [p EXCEPT !.entries = entries, !.err = "nil",
            !.EntriesAnalyzed = Len(entries),
            !.TreatmentsAnalyzed = Len(ts),
            !.CalculatedAt = at]

\* service.go:242-243 and analyzer.go:49-120: a statistical analysis
RunAnalyzeData(h) ==
  /\ analysis' = [Finalize(h.entries, h.treatments, now, AnalyzeData(h.treatments))
                    EXCEPT !.events = h.events]
  /\ UNCHANGED <<coreVars, pr, engineVars>>

\* service.go:193-194 and analyzer.go:643-720: an ML analysis
RunAnalyzeDataML(h) ==
  /\ analysis' = [Finalize(h.entries, h.treatments, now, AnalyzeDataML(h.treatments))
                    EXCEPT !.events = h.events]
  /\ UNCHANGED <<coreVars, pr, engineVars>>

\* --------------------------------------------------------- learning calls
\* part_013:831-854: a LearnFromHistory call on the ensemble engine
OrefLearnFromHistory(h) ==
  /\ orefEngine.learnCalls < MaxLearnCalls
  /\ orefEngine' = [OrefLearned(orefEngine, h) EXCEPT !.learnCalls = @ + 1,
                                                      !.observed = h]
  /\ UNCHANGED <<coreVars, pr, mlPredictor, analysis>>

\* part_015:103-120: a LearnFromHistory call on the sequence predictor
MLLearnFromHistory(h) ==
  /\ mlPredictor' = MLLearned(mlPredictor, h)
  /\ UNCHANGED <<coreVars, pr, orefEngine, analysis>>

\* ------------------------------------------------------------ specifications
Recalculation(limit) ==
  \/ \E m \in Modes : StartCalculation(m, limit)
  \/ CancelCalculation
  \/ \E r \in Runs :
       \/ WReadClient(r)
       \/ WCheckpoint(r)
       \/ \E ok \in BOOLEAN : WFetchEntries(r, ok)
       \/ \E ok \in BOOLEAN : WFetchTreatments(r, ok)
       \/ WAnalyze(r)
       \/ WLearnOref(r)
       \/ WTrain(r)
       \/ WSavingProgress(r)
       \/ WLock(r)
       \/ WSetMode(r)
       \/ WCommit(r)
       \/ WSave(r)
       \/ WCleanup(r)

Forecasts ==
  \/ \E k \in Kinds : FBegin(k)
  \/ FRead
  \/ FInvalidate
  \/ FLock
  \/ \E eo \in EntriesAnswers, to \in TreatmentsAnswers : FBody(eo, to)
  \/ FPredictFirst
  \/ FPredictRange
  \/ FStore

\* the service with forecast calls beside one recalculation
Next ==
  \/ Recalculation(MaxOverlapRuns)
  \/ Forecasts

Spec == Init /\ [][Next]_vars

\* The same steps under the scheduling the program runs with.  A forecast
\* call is a running goroutine: each of its steps is taken once it can be
\* (its fetches end, the HTTP client has a 30 s timeout, client.go:34-35).
\* A worker that holds s.mu is running too and reaches its Unlock.  Nothing
\* is assumed about how long the worker's fetches and analysis take.
ForecastProgress ==
  \/ FRead
  \/ FInvalidate
  \/ FLock
  \/ \E eo \in EntriesAnswers, to \in TreatmentsAnswers : FBody(eo, to)
  \/ FPredictFirst
  \/ FPredictRange
  \/ FStore

LockedSection(r) == WSetMode(r) \/ WCommit(r) \/ WCleanup(r)

SpecLive ==
  /\ Init
  /\ [][Next]_vars
  /\ WF_vars(ForecastProgress)
  /\ \A r \in Runs : WF_vars(LockedSection(r))

\* the forecast calls and the clock: the cache of getRecentData
NextCache ==
  \/ Forecasts
  \/ Tick
  \/ \E c \in BOOLEAN : SetClient(c)

SpecCache == Init /\ [][NextCache]_vars

\* GetParameters and a caller that writes to the value it was given, beside
\* one recalculation
NextParams ==
  \/ Recalculation(MaxOverlapRuns)
  \/ GetParameters
  \/ \E v \in CallerValues : MutateScalar(v)
  \/ \E f \in MapFields, p \in Periods, v \in CallerValues : MutateMap(f, p, v)

SpecParams == Init /\ [][NextParams]_vars

\* the prediction functions on their inputs
NextPredict ==
  \/ Predict
  \/ \E ai \in ScenarioAmounts, ac \in ScenarioAmounts : PredictWithScenario(ai, ac)
  \/ predictRange
  \/ PredictLongTerm
  \/ \E h \in Hours, learned \in BOOLEAN : OrefPredict(h, learned)
  \/ generatePredictionCurves

SpecPredict == InitPredict /\ [][NextPredict]_vars

\* analyses of histories that grow
NextAnalysis ==
  \/ \E h \in AnalyzerHistories(analysis.events) : RunAnalyzeData(h)
  \/ \E h \in AnalyzerHistories(analysis.events) : RunAnalyzeDataML(h)

SpecAnalysis == Init /\ [][NextAnalysis]_vars

\* analyses of short histories, made again as the clock advances
NextRepeat ==
  \/ Tick
  \/ \E h \in AnalyzerHistories(0) : RunAnalyzeData(h)
  \/ \E h \in AnalyzerHistories(0) : RunAnalyzeDataML(h)

SpecRepeat == Init /\ [][NextRepeat]_vars

\* LearnFromHistory calls on the two engines
NextLearn ==
  \/ \E h \in OrefHistories(orefEngine) : OrefLearnFromHistory(h)
  \/ \E h \in MLHistories(orefEngine = NewOrefEngine /\ mlPredictor = NewMLPredictor) :
       MLLearnFromHistory(h)

SpecLearn == Init /\ [][NextLearn]_vars

\* recalculations alone: StartCalculation, CancelCalculation and the workers
NextRuns == Recalculation(MaxRuns)

SpecRuns == Init /\ [][NextRuns]_vars

\* Recalculations of statistical mode under the scheduling the program runs
\* with: the worker is a goroutine (service.go:104), so each of its steps is
\* taken once it can be; its fetches return (client.go:34-35) and its waits
\* for s.mu end, since a holder of s.mu reaches its Unlock.
WorkerStep(r) ==
  \/ WReadClient(r)
  \/ WCheckpoint(r)
  \/ \E ok \in BOOLEAN : WFetchEntries(r, ok)
  \/ \E ok \in BOOLEAN : WFetchTreatments(r, ok)
  \/ WAnalyze(r)
  \/ WSavingProgress(r)
  \/ WLock(r)
  \/ WSetMode(r)
  \/ WCommit(r)
  \/ WSave(r)
  \/ WCleanup(r)

NextRunsLive ==
  \/ StartCalculation("statistical", MaxRuns)
  \/ CancelCalculation
  \/ \E r \in Runs : WorkerStep(r)

SpecRunsLive ==
  /\ Init
  /\ [][NextRunsLive]_vars
  /\ \A r \in Runs : WF_vars(WorkerStep(r))

\* ------------------------------------------------------------------ claims
\* C1: a StartCalculation call made while a recalculation is in progress
\* returns the busy error, starts no worker, and leaves isCalculating, the
\* cancel channel, the committed parameters and the progress record as they
\* were before the call.
C1_BusyStartRejected ==
  [][(isCalculating /\ \E m \in Modes : StartCalculation(m, MaxRuns))
       => /\ startResult' = "calculation already in progress"
          /\ UNCHANGED <<isCalculating, calculationCancel, closed, params, heap,
                         maps, predictorParams, progress, worker, started>>]_vars

\* a call was rejected while the worker of the first run was fetching
C1_Witness ==
  /\ startResult = "calculation already in progress"
  /\ isCalculating
  /\ worker[1].pc = "fetchEntries"

\* C2: a run that CancelCalculation has cancelled before its commit never
\* replaces s.params, wherever the cancel falls among the worker's steps.
C2_CancelledRunNeverCommits ==
  [][\A r \in Runs : (worker[r].cancelled /\ ~worker[r].committed)
                        => (params' # r /\ ~worker'[r].committed)]_vars

\* C3: the parts of one forecast are all computed from the same parameter
\* object, whenever the commit falls relative to the forecast's reads.
C3_OneSnapshotPerForecast == fc.result.first = fc.result.second

\* C4: a GetPrediction call made while a recalculation is in progress
\* returns without the recalculation having to advance, and the worker holds
\* s.mu only inside its flag updates, its commit and its deferred reset.
C4_ForecastNotBlocked ==
  /\ [](mu.kind = "worker" => worker[mu.id].pc \in {"setMode", "commit", "cleanup"})
  /\ ((fc.kind = "GetPrediction" /\ fc.during /\ fc.pc # "return")
        ~> (fc.pc = "return"))

\* a forecast made during the run has returned a result while the worker is
\* still waiting for its entries
C4_Witness ==
  /\ fc.kind = "GetPrediction" /\ fc.during /\ fc.pc = "return"
  /\ fc.result.engine # "nil"
  /\ isCalculating /\ worker[1].pc = "fetchEntries"

\* C5: a write to the value GetParameters returned, also to an entry of one of
\* its maps, changes neither the committed snapshot nor the parameters of any
\* predictor.
C5_ReturnedValueIsCopy ==
  [][mutations' # mutations
       => /\ Snapshot(params)' = Snapshot(params)
          /\ \A e \in DOMAIN predictorParams :
               Snapshot(predictorParams[e])' = Snapshot(predictorParams[e])]_vars

\* C6: while less than cacheDuration has passed since a fetch that stored at
\* least one entry (and RefreshCache has not been called since), getRecentData
\* returns the cached entries and treatments and makes no request; otherwise,
\* with a client attached, it makes a request, and the data it obtains
\* replaces the cache.
C6_CacheWithinTTL ==
  [][(fc.pc = "body" /\ fc'.pc # "body")
       => IF cacheTime # ZeroTime /\ now - cacheTime < cacheDuration
             /\ Len(cachedEntries) > 0
            THEN /\ fc'.fetched = 0
                 /\ fc'.entries = cachedEntries
                 /\ fc'.treatments = cachedTreatments
                 /\ UNCHANGED cacheVars
            ELSE client => /\ fc'.fetched > 0
                           /\ fc'.cause = "nil" => /\ cachedEntries' = fc'.entries
                                                   /\ cachedTreatments' = fc'.treatments
                                                   /\ cacheTime' = now]_vars

\* the second call was served from a cache filled earlier
C6_Witness ==
  /\ calls = 2 /\ fc.pc = "predict" /\ fc.fetched = 0
  /\ fc.entries = cachedEntries /\ Len(fc.entries) > 0
  /\ now > cacheTime

\* C7: when the fetch of entries or of treatments fails, the forecast call
\* returns the wrapped fetch error and no result, and cachedEntries,
\* cachedTreatments, cacheTime and lastPrediction are as before the call.
C7_FailedFetchLeavesState ==
  [][(fc.pc = "body" /\ fc'.cause = "fetch error")
       => /\ fc'.pc = "return"
          /\ fc'.err \in {"fetching entries", "fetching treatments"}
          /\ fc'.result = NoPrediction
          /\ UNCHANGED <<cachedEntries, cachedTreatments, cacheTime, lastPrediction>>]_vars

\* the treatments fetch failed after the entries fetch had succeeded, and the
\* cache filled before is still there
C7_Witness ==
  /\ fc.pc = "return" /\ fc.err = "fetching treatments" /\ fc.fetched = 2
  /\ Len(cachedEntries) > 0 /\ cacheTime # ZeroTime

\* C8: when a fetch fails during a recalculation, the StartCalculation call
\* that started the run returns an error to its caller.
C8_FetchFailureReturned ==
  \A r \in Runs : worker[r].err \in {"fetch entries", "fetch treatments"}
                     => worker[r].returned \notin {"none", "nil"}

\* C9: GetPrediction returns a result and no error whenever it saw a client and
\* obtained at least one reading, from the engine of the current mode; it
\* returns no result, and an error, only when no client is attached, a fetch
\* failed or there are no readings.
C9_ForecastAlwaysProduced ==
  /\ fc.pc # "panic"
  /\ (fc.kind = "GetPrediction" /\ fc.pc = "return")
       => IF fc.client /\ fc.cause = "nil" /\ Len(fc.entries) > 0
            THEN /\ fc.err = "nil"
                 /\ fc.result.engine = (IF fc.useML THEN "orefEngine" ELSE "predictor")
                 /\ fc.result.glucose = fc.entries[1]
            ELSE /\ fc.result = NoPrediction
                 /\ fc.err \in {"no client configured", "fetching entries",
                                "fetching treatments", "no glucose data available"}

\* GetPrediction has returned a result of the ensemble engine (ML mode)
C9_Witness ==
  /\ fc.kind = "GetPrediction" /\ fc.pc = "return"
  /\ fc.err = "nil" /\ fc.result.engine = "orefEngine"

\* C10: every value Predictor.Predict, Predictor.PredictWithScenario and
\* OrefEngine.Predict put into a short- or long-horizon sequence lies in
\* [20, 500], whatever the glucose, the trend, the treatments and the learned
\* patterns.
C10_PredictedValuesInRange ==
  pr.step > 0 => (pr.value # NaN /\ pr.value >= 20 /\ pr.value <= 500)

C12_AutosensWithinBounds ==
  /\ orefEngine.sensitivityRatio # NaN
  /\ orefEngine.sensitivityRatio >= AutosensMin
  /\ orefEngine.sensitivityRatio <= AutosensMax

\* C13: an ensemble engine that has learned nothing (it is fresh, or every
\* LearnFromHistory call so far had too short a history) has the autosens
\* ratio 1.0 and 24 hourly sensitivity and 24 hourly ICR factors of 1.0.
C13_UnlearnedEngineHasDefaults ==
  ~orefEngine.trained =>
    /\ orefEngine.sensitivityRatio = 1000
    /\ \A h \in 1..24 : /\ orefEngine.HourlySensitivity[h] = 100
                        /\ orefEngine.HourlyICR[h] = 100

\* C14: the pattern libraries are bounded: at most MaxOrefPatterns meal
\* patterns and MaxOrefPatterns correction patterns in the ensemble engine,
\* at most maxPatterns learned patterns in the sequence predictor.
C14_LibrariesBounded ==
  /\ Len(orefEngine.MealPatterns) <= MaxOrefPatterns
  /\ Len(orefEngine.CorrectionPatterns) <= MaxOrefPatterns
  /\ Len(mlPredictor.patterns) <= maxPatterns

\* the three libraries are full, after histories with more distinct
\* observations than they hold
C14_Witness ==
  /\ Len(orefEngine.MealPatterns) = MaxOrefPatterns
  /\ Len(orefEngine.CorrectionPatterns) = MaxOrefPatterns
  /\ Len(mlPredictor.patterns) = maxPatterns

\* C15: nothing is evicted from a pattern library: a pattern that is in a
\* library before a learning step is still there, at its place, after it.
C15_NoEviction ==
  [][/\ \A i \in 1..Len(orefEngine.MealPatterns) :
          /\ i <= Len(orefEngine'.MealPatterns)
          /\ orefEngine'.MealPatterns[i].TimeOfDay = orefEngine.MealPatterns[i].TimeOfDay
          /\ orefEngine'.MealPatterns[i].CarbAmount = orefEngine.MealPatterns[i].CarbAmount
     /\ \A i \in 1..Len(orefEngine.CorrectionPatterns) :
          /\ i <= Len(orefEngine'.CorrectionPatterns)
          /\ orefEngine'.CorrectionPatterns[i].TimeOfDay
               = orefEngine.CorrectionPatterns[i].TimeOfDay
          /\ orefEngine'.CorrectionPatterns[i].StartingBG
               = orefEngine.CorrectionPatterns[i].StartingBG
     /\ \A i \in 1..Len(mlPredictor.patterns) :
          /\ i <= Len(mlPredictor'.patterns)
          /\ mlPredictor'.patterns[i].InputPattern = mlPredictor.patterns[i].InputPattern]_vars

\* C17: every sample that entered the ISF median lies in [10, 200], every
\* sample that entered the ICR median in [3, 40], in both modes, and a global
\* value taken from samples is their median, not a clamped value.
C17_SamplesWithinBounds ==
  analysis.pc = "done" =>
    /\ \A i \in 1..Len(analysis.isfValues) :
         analysis.isfValues[i] >= 100 /\ analysis.isfValues[i] <= 2000
    /\ \A i \in 1..Len(analysis.icrValues) :
         analysis.icrValues[i] >= 30 /\ analysis.icrValues[i] <= 400
    /\ analysis.isfValues # <<>> => analysis.ISF = median(analysis.isfValues)
    /\ analysis.icrValues # <<>> => analysis.ICR = median(analysis.icrValues)

\* an analysis whose medians were taken from samples after the bounds had
\* excluded a sample
C17_Witness ==
  /\ analysis.pc = "done"
  /\ analysis.isfValues # <<>> /\ analysis.icrValues # <<>>
  /\ analysis.isfRejected + analysis.icrRejected > 0

\* C16: from one analysis to the next of the same mode, one more qualifying
\* event (a sample that enters the median) never lowers the ISF, the ICR or the
\* DIA confidence, the step from no qualifying event included; and the
\* confidences lie in [0, 100].
C16_ConfidenceMonotone ==
  [][(analysis.pc = "done" /\ analysis'.pc = "done" /\ analysis'.mode = analysis.mode) =>
       /\ Len(analysis'.isfValues) = Len(analysis.isfValues) + 1
            => analysis'.ISFConfidence >= analysis.ISFConfidence
       /\ Len(analysis'.icrValues) = Len(analysis.icrValues) + 1
            => analysis'.ICRConfidence >= analysis.ICRConfidence
       /\ Len(analysis'.diaValues) = Len(analysis.diaValues) + 1
            => analysis'.DIAConfidence >= analysis.DIAConfidence
       /\ \A c \in {analysis'.ISFConfidence, analysis'.ICRConfidence,
                     analysis'.DIAConfidence} : c >= 0 /\ c <= 100]_vars

\* C18: in the snapshot a recalculation has committed, the ISF and the ICR of
\* a time-of-day bucket that did not meet the minimum sample count (here every
\* bucket: the history of a run holds no bucket's samples) are the global ISF
\* and ICR.
C18_BucketsWithoutSamplesAreGlobal ==
  params \in Runs =>
    \A p \in Periods :
      /\ maps[<<params, "ISFByTimeOfDay">>][p] = heap[params].ISF
      /\ maps[<<params, "ICRByTimeOfDay">>][p] = heap[params].ICR

\* C19: an analysis, statistical or ML, that found no qualifying correction
\* (meal) sample while the total daily insulin is above 0 gives the ISF
\* 1800 / total daily insulin (the ICR 500 / total daily insulin) with a low
\* confidence.
C19_RuleOfThumbFallback ==
  (analysis.pc = "done" /\ analysis.TotalDailyInsulin > 0) =>
    /\ analysis.isfValues = <<>> =>
         /\ analysis.ISF = Sat(180000 \div analysis.TotalDailyInsulin)
         /\ analysis.ISFConfidence <= 30
    /\ analysis.icrValues = <<>> =>
         /\ analysis.ICR = Sat(50000 \div analysis.TotalDailyInsulin)
         /\ analysis.ICRConfidence <= 30

\* C20: a treatment whose event gave a sample to the ISF or the ICR median has
\* no other treatment with insulin or carbs in the 3 hours after it.
C20_NoConfoundingTreatment ==
  analysis.pc = "done" =>
    LET ts == analysis.treatments
        used == {analysis.isfEvents[k] : k \in 1..Len(analysis.isfEvents)}
                  \cup {analysis.icrEvents[k] : k \in 1..Len(analysis.icrEvents)}
    IN \A i \in used : \A j \in 1..Len(ts) :
         (j # i /\ ts[j].minute > ts[i].minute /\ ts[j].minute < ts[i].minute + 180)
           => ~(HasInsulin(ts[j]) \/ HasCarbs(ts[j]))

\* C21: in every prediction result, of Predictor.Predict and of
\* OrefEngine.Predict, the points of the short-horizon sequence are 5 minutes
\* apart and at most 24, ending 2 hours out, and the points of the
\* long-horizon sequence are 15 minutes apart and reach 6 hours out: each
\* point lies one spacing of its sequence after the point before it in the
\* same sequence.
C21_ResultSequences ==
  [][(pr'.step = pr.step + 1 /\ pr.step > 0 /\ pr'.sequence = pr.sequence)
       => /\ pr'.minute > pr.minute
          /\ pr'.minute - pr.minute = IF pr'.sequence = "ShortTerm" THEN 5 ELSE 15
          /\ pr'.minute <= IF pr'.sequence = "ShortTerm" THEN 120 ELSE 360]_vars

\* C22: every AnalyzeData call returns, with a nil error, a snapshot whose
\* EntriesAnalyzed is the number of readings passed and whose
\* TreatmentsAnalyzed is the number of treatments passed, whether or not the
\* readings and treatments yield samples.
C22_CountsOfInput ==
  analysis.pc = "done"
    => /\ analysis.err = "nil"
       /\ analysis.EntriesAnalyzed = Len(analysis.entries)
       /\ analysis.TreatmentsAnalyzed = Len(analysis.treatments)

\* an analysis of readings and treatments of which some gave no sample
C22_Witness ==
  /\ analysis.pc = "done"
  /\ analysis.mode = "statistical"
  /\ analysis.TreatmentsAnalyzed > Len(analysis.isfEvents) + Len(analysis.icrEvents)
  /\ Len(analysis.isfEvents) + Len(analysis.icrEvents) > 0
  /\ analysis.EntriesAnalyzed > 0

\* C23: an analysis that follows another one of the same mode over the same
\* readings and treatments returns a snapshot equal to the first in every
\* field.
C23_SameInputSameSnapshot ==
  [][(/\ analysis.pc = "done" /\ analysis'.pc = "done"
      /\ analysis'.mode = analysis.mode
      /\ analysis'.entries = analysis.entries
      /\ analysis'.treatments = analysis.treatments)
       => analysis' = analysis]_vars

\* C24: at any time at most one runCalculation worker has started and not
\* yet returned, also when CancelCalculation is followed by a new
\* StartCalculation before the cancelled worker has returned.
C24_OneActiveWorker ==
  Cardinality({r \in Runs : worker[r].pc \notin {"none", "done"}}) <= 1

\* C25: a worker whose run CancelCalculation has cancelled finds its run
\* cancelled at its next isCancelled checkpoint and never commits, even if a
\* new StartCalculation has installed a fresh cancel channel before.
C25_CancellationBoundToRun ==
  [][\A r \in Runs :
       worker[r].cancelled
         => /\ (worker[r].pc \in CheckPcs /\ worker'[r].pc # worker[r].pc
                  => worker'[r].pc = "defer")
            /\ (worker'[r].committed => worker[r].committed)]_vars

\* C26: isCalculating is true from the start of an accepted recalculation
\* that is not cancelled until its worker has returned, whatever an earlier,
\* cancelled worker does meanwhile; and every accepted recalculation commits
\* in the end unless it is cancelled or its client or a fetch fails.
C26_AcceptedRunCommits ==
  /\ [](\A r \in Runs :
          (worker[r].pc \notin {"none", "done"} /\ ~worker[r].cancelled) => isCalculating)
  /\ \A r \in Runs :
       (worker[r].pc # "none")
         ~> (worker[r].committed \/ worker[r].cancelled \/ worker[r].err # "nil")

\* C27: the progress record reads 100 percent only once the snapshot of the
\* run that reports it has been committed and is what GetParameters returns:
\* a worker step that sets the progress to 100 percent belongs to a run
\* that has committed its parameter object to s.params.
C27_CompleteAfterCommit ==
  [][\A r \in Runs :
       (worker'[r] # worker[r] /\ progress' # progress /\ progress'.percent = 100)
         => (worker'[r].committed /\ params' = worker'[r].params)]_vars

\* C28: a recalculation in ML mode that was cancelled and has returned without
\* committing leaves the forecasting state as it was before the run: the
\* ensemble engine's autosens ratio, circadian profile and pattern libraries,
\* the sequence predictor's library and the flag useMLPrediction.  Stated for
\* the first run of a service, whose state before the run is that of
\* NewService.
C28_CancelledRunLeavesEngines ==
  (/\ started = 1
   /\ worker[1].mode = "ml"
   /\ worker[1].cancelled
   /\ ~worker[1].committed
   /\ worker[1].pc = "done")
    => /\ orefEngine = NewOrefEngine
       /\ mlPredictor = NewMLPredictor
       /\ useMLPrediction = FALSE

\* C29: a LearnFromHistory call of the ensemble engine whose history holds
\* one meal observation and one correction observation handles each by
\* nearest-match-or-insert: an observation that matches stored patterns is
\* merged into exactly one of them, the Count of which grows by 1, and no
\* matching pattern is nearer to the observation than that one; an
\* observation that matches none is appended with Count 1 while the library
\* is not full.
C29_NearestMatchOrInsert ==
  [][orefEngine'.learnCalls = orefEngine.learnCalls + 1 =>
       LET h == orefEngine'.observed
           dist(a, b) == IF a >= b THEN a - b ELSE b - a
           \* lib, the library after the call, the observation, the place and
           \* the amount a pattern is matched on, and the width of a match
           handled(lib, after, o, amount, width) ==
             LET matching == {i \in 1..Len(lib) :
                                /\ Near(lib[i].TimeOfDay, o.TimeOfDay, 100)
                                /\ Near(lib[i][amount], o[amount], width)}
                 nearer(j, i) ==
                   /\ dist(lib[j].TimeOfDay, o.TimeOfDay) <= dist(lib[i].TimeOfDay, o.TimeOfDay)
                   /\ dist(lib[j][amount], o[amount]) <= dist(lib[i][amount], o[amount])
                   /\ \/ dist(lib[j].TimeOfDay, o.TimeOfDay) < dist(lib[i].TimeOfDay, o.TimeOfDay)
                      \/ dist(lib[j][amount], o[amount]) < dist(lib[i][amount], o[amount])
             IN IF matching # {}
                  THEN /\ Len(after) = Len(lib)
                       /\ \E i \in matching :
                            /\ after[i].Count = lib[i].Count + 1
                            /\ \A j \in 1..Len(lib) : j # i => after[j] = lib[j]
                            /\ \A j \in matching : ~nearer(j, i)
                  ELSE Len(lib) < MaxOrefPatterns => after = Append(lib, o)
           meals == SelectSeq(h.treatments,
                              LAMBDA t : t.carbs > 0 /\ t.bgBefore > 0 /\ t.curve >= 12)
           corrections == SelectSeq(h.treatments,
                                    LAMBDA t : /\ t.insulin >= 5 /\ t.carbs = 0
                                               /\ t.bgBefore >= 150
                                               /\ t.bgBefore - t.nadir >= 20)
       IN (h.entries >= 100 /\ Len(h.treatments) >= 10
           /\ Len(meals) = 1 /\ Len(corrections) = 1)
            => /\ handled(orefEngine.MealPatterns, orefEngine'.MealPatterns,
                          [TimeOfDay |-> TimeOfDay(meals[1].hour),
                           CarbAmount |-> meals[1].carbs,
                           PeakBGRise |-> meals[1].rise, Count |-> 1],
                          "CarbAmount", 20)
               /\ handled(orefEngine.CorrectionPatterns, orefEngine'.CorrectionPatterns,
                          [TimeOfDay |-> TimeOfDay(corrections[1].hour),
                           StartingBG |-> corrections[1].bgBefore,
                           ActualISF |-> ((corrections[1].bgBefore - corrections[1].nadir) * 10)
                                           \div corrections[1].insulin,
                           Count |-> 1],
                          "StartingBG", 30)]_vars

\* C30: no division the analyzer evaluates has a zero divisor, for any
\* history: the divisors of the per-day insulin average and of the per-day
\* bolus average in calculateDailyAverages are not 0.
C30_NoZeroDivisor ==
  analysis.pc = "done" => \A i \in 1..Len(analysis.divisors) : analysis.divisors[i] # 0

====
